---------------------------- MODULE Spec2Model ----------------------------
(***************************************************************************)
(* A model of the analytical core of Intelligence-Brief:                   *)
(*   src/src/normalization.py    similarity clustering                     *)
(*   src/src/event_extraction.py event classification and confidence       *)
(*   src/src/models.py           Event.update_confidence                   *)
(*   src/src/storage.py          the events table                          *)
(*   src/src/scoring.py          the scoring engine                        *)
(*   src/src/pipeline.py         the steps of run_full_pipeline            *)
(*                                                                         *)
(* Units.  Times are whole hours.  Similarity thresholds, confidences,     *)
(* severities and weights are kept in tenths (7 is 0.7); a Jaccard         *)
(* similarity is the pair <<|intersection|, |union|>> and is compared with *)
(* a threshold by cross-multiplication; a score is kept in thousandths     *)
(* (70000 is 70.0).  The arithmetic is exact: the rounding of IEEE doubles *)
(* is not modelled.                                                        *)
(*                                                                         *)
(* Texts are TLA+ strings, read character by character with SubSeq, so     *)
(* that lower-casing, whitespace splitting, substring search and the       *)
(* regular-expression search are computed as the code computes them.      *)
(***************************************************************************)
EXTENDS Integers, Sequences, FiniteSets, TLC

VARIABLES
  config,      \* the Config the components read (src/src/config.py)
  now,         \* datetime.utcnow(), in hours
  sources,     \* the batch handed to cluster_sources
  clusters,    \* what cluster_sources returned
  cluster,     \* the cluster handed to extract_events
  extracted,   \* what extract_events returned
  events,      \* the rows of the events table
  extractLog,  \* history: every call of extract_events and its result
  scoreIn,     \* the events handed to calculate_assessment
  assessment,  \* what calculate_assessment returned
  assessments, \* the rows of the assessments table
  historical,  \* the rows of the historical_assessments table
  cursor,      \* the position of the loop of step 4 in clusters
  run,         \* the number of pipeline runs started
  pc           \* the step the modelled run is at

vars == <<config, now, sources, clusters, cluster, extracted, events,
          extractLog, scoreIn, assessment, assessments, historical, cursor, run,
          pc>>

-----------------------------------------------------------------------------
(* Bounds of the model.                                                    *)

MaxBatch == 3
MaxTime == 2
MaxMembers == 2
MaxRuns == 2
MaxNow == 2
MaxScoreEvents == 5
MaxPipelineBatch == 2
MaxDriverEvents == 6
MaxOverlap == 2
MaxStored == 2
MaxPatternEvents == 3

-----------------------------------------------------------------------------
(* Small helpers.                                                          *)

Min(a, b) == IF a <= b THEN a ELSE b

\* a max that returns its second argument
Max_Second(a, b) == b

Max(a, b) == IF a >= b THEN a ELSE b
Abs(a) == IF a >= 0 THEN a ELSE -a
Range(s) == { s[i] : i \in DOMAIN s }

RECURSIVE SumSeq(_)
SumSeq(s) == IF s = <<>> THEN 0 ELSE Head(s) + SumSeq(Tail(s))

RECURSIVE Flatten(_)
Flatten(ss) == IF ss = <<>> THEN <<>> ELSE Head(ss) \o Flatten(Tail(ss))

Count(s, x) == Cardinality({ i \in DOMAIN s : s[i] = x })

\* Optional[datetime]: <<>> is None, <<t>> is the time t.
None == <<>>
Some(t) == <<t>>

-----------------------------------------------------------------------------
(* Python string operations.                                               *)

UpperChars == "ABCDEFGHIJKLMNOPQRSTUVWXYZ"
LowerChars == "abcdefghijklmnopqrstuvwxyz"

CharAt(s, i) == SubSeq(s, i, i)

LowerChar(c) ==
  IF \E i \in 1..Len(UpperChars) : CharAt(UpperChars, i) = c
  THEN CharAt(LowerChars, CHOOSE i \in 1..Len(UpperChars) : CharAt(UpperChars, i) = c)
  ELSE c

\* str.lower()
RECURSIVE Lower(_)
Lower(s) ==
  IF Len(s) = 0 THEN ""
  ELSE IF Len(s) = 1 THEN LowerChar(s)
  ELSE LET half == Len(s) \div 2
       IN Lower(SubSeq(s, 1, half)) \o Lower(SubSeq(s, half + 1, Len(s)))

IsSpace(c) == c \in {" ", "\n", "\t"}

\* set(str.split()): the maximal runs of non-whitespace characters.
Words(s) ==
  { SubSeq(s, p[1], p[2]) : p \in { q \in (1..Len(s)) \X (1..Len(s)) :
        /\ q[1] <= q[2]
        /\ \A k \in q[1]..q[2] : ~IsSpace(CharAt(s, k))
        /\ (q[1] = 1 \/ IsSpace(CharAt(s, q[1] - 1)))
        /\ (q[2] = Len(s) \/ IsSpace(CharAt(s, q[2] + 1))) } }

\* s[:n]
Prefix(s, n) == SubSeq(s, 1, Min(n, Len(s)))

\* the positions at which sub occurs in s
Occurrences(sub, s) ==
  { i \in 1..(Len(s) - Len(sub) + 1) : SubSeq(s, i, i + Len(sub) - 1) = sub }

\* sub in s
Contains(s, sub) == Len(sub) = 0 \/ Occurrences(sub, s) # {}

\* urllib.parse.urlparse(url).netloc for "scheme://netloc/path..." ; "" when
\* the url has no "//" after its scheme.
NetLoc(url) ==
  LET starts == { i \in Occurrences("//", url) :
                    /\ i = 1 \/ CharAt(url, i - 1) = ":"
                    /\ \A k \in 1..(i - 1) : CharAt(url, k) \notin {"/", "?", "#"} }
  IN IF starts = {} THEN ""
     ELSE LET b == (CHOOSE i \in starts : TRUE) + 2
              ends == { k \in b..Len(url) : CharAt(url, k) \in {"/", "?", "#"} }
              e == IF ends = {} THEN Len(url)
                   ELSE (CHOOSE k \in ends : \A m \in ends : k <= m) - 1
          IN SubSeq(url, b, e)

-----------------------------------------------------------------------------
(* The raw items the model draws its batches and clusters from.  Items 1   *)
(* and 3 carry the same source_id: the same url and title reached through  *)
(* two feeds (ingestion derives the id from url and title).                *)

SourcePool == <<
  [source_id |-> "n1", url |-> "https://example.com/news1",
   title |-> "Election held in Country A",
   content |-> "Voters went to the polls today.",
   source_name |-> "Source1", tier |-> "B"],
  [source_id |-> "n2", url |-> "https://other.com/news",
   title |-> "Election held in Country A",
   content |-> "Voters went to the polls today.",
   source_name |-> "Source2", tier |-> "B"],
  [source_id |-> "n1", url |-> "https://example.com/news1",
   title |-> "Election held in Country A",
   content |-> "Voters went to the polls today.",
   source_name |-> "Source3", tier |-> "D"],
  [source_id |-> "n4", url |-> "https://other.com/story",
   title |-> "Election held in Country A",
   content |-> "Ballots are being counted.",
   source_name |-> "Source2", tier |-> "C"],
  [source_id |-> "n5", url |-> "https://example.com/news5",
   title |-> "ELECTION results in country a",
   content |-> "Voters went to the polls.",
   source_name |-> "Source1", tier |-> "A"] >>

\* The texts the model draws anchors from.
ExtractPool == <<
  [source_id |-> "x1", url |-> "https://example.com/news1",
   title |-> "Election held in Country A",
   content |-> "Voters went to the polls today."],
  [source_id |-> "x2", url |-> "https://example.com/news2",
   title |-> "Protest after bombing in Nigeria",
   content |-> "Insurgent attack on a port. Military on alert."],
  [source_id |-> "x3", url |-> "https://other.com/news",
   title |-> "Completely different story",
   content |-> "This is about something else entirely."],
  [source_id |-> "x4", url |-> "https://example.com/news4",
   title |-> "Major award in Country A",
   content |-> "The ceremony was held. Export figures rose."],
  [source_id |-> "x5", url |-> "https://example.com/news5",
   title |-> "Talks in Country A",
   content |-> "The government\nannounced a change."],
  [source_id |-> "x6", url |-> "https://example.com/news6",
   title |-> "Talks in Country A",
   content |-> "The government announced a change."],
  [source_id |-> "x7", url |-> "https://example.com/news7",
   title |-> "New sanctions imposed",
   content |-> "Economic sanctions were announced today."],
  [source_id |-> "x8", url |-> "https://example.com/news",
   title |-> "Military conflict escalates in Region X",
   content |-> "Armed forces engaged in battle today. Airstrikes reported."] >>

AllPoolItems == Range(SourcePool) \cup Range(ExtractPool)

\* A RawSource (src/src/models.py): a pool item with its two timestamps.
RawSource(p, published_at, retrieved_at) ==
  [source_id |-> p.source_id, url |-> p.url, title |-> p.title,
   content |-> p.content, source_name |-> p.source_name, tier |-> p.tier,
   published_at |-> published_at, retrieved_at |-> retrieved_at]

\* s.published_at or s.retrieved_at
EffectiveTime(s) ==
  IF s.published_at = None THEN s.retrieved_at ELSE s.published_at[1]


-----------------------------------------------------------------------------
(* Configuration (src/src/config.py).  config.yaml is data, not code: the  *)
(* model draws the values the components read from small sets.             *)

\* DeduplicationConfig
SimilarityThresholds == {5, 8}
TimeWindowHours == {1, 2}

BaseConfig ==
  [similarity_threshold |-> 8,
   time_window_hours |-> 1,
   max_sources_per_cluster |-> 2,
   monitored_countries |-> <<"Country A">>,
   min_confidence |-> 5,
   weights |-> << [name |-> "political", weight |-> 4],
                  [name |-> "security", weight |-> 6] >>,
   event_types |-> [armed_conflict |->
                      [severity_base |-> 9,
                       sub_score_weights |-> [security |-> 10, political |-> 5]],
                    election |->
                      [severity_base |-> 5,
                       sub_score_weights |-> [political |-> 8, security |-> 0]]]]

ClusterConfigs ==
  { [BaseConfig EXCEPT !.similarity_threshold = th, !.time_window_hours = w] :
      th \in SimilarityThresholds, w \in TimeWindowHours }

-----------------------------------------------------------------------------
(* Similarity clustering (src/src/normalization.py).                       *)

\* the length of the content sample _are_similar compares
ContentSample == 500

\* the texts of the pool, for which the word sets are computed once
PoolTexts ==
  { p.title : p \in AllPoolItems }
    \cup { Prefix(p.content, ContentSample) : p \in AllPoolItems }

WordSetOf == [t \in PoolTexts |-> Words(Lower(t))]

\* set(text.lower().split())
WordSet(text) == IF text \in DOMAIN WordSetOf THEN WordSetOf[text] ELSE Words(Lower(text))

\* _text_similarity: the Jaccard similarity <<|intersection|, |union|>>,
\* <<0, 1>> for 0.0
_text_similarity(text1, text2) ==
  LET words1 == WordSet(text1)
      words2 == WordSet(text2)
  IN IF words1 = {} \/ words2 = {} THEN <<0, 1>>
     ELSE <<Cardinality(words1 \cap words2), Cardinality(words1 \cup words2)>>

\* sim > tenths / 10
Exceeds(sim, tenths) == sim[1] * 10 > tenths * sim[2]

NetLocOf == [u \in { p.url : p \in AllPoolItems } |-> NetLoc(u)]

_same_domain(url1, url2) ==
  LET domain1 == IF url1 \in DOMAIN NetLocOf THEN NetLocOf[url1] ELSE NetLoc(url1)
      domain2 == IF url2 \in DOMAIN NetLocOf THEN NetLocOf[url2] ELSE NetLoc(url2)
  IN domain1 = domain2

\* the title rule of _are_similar
TitleSimilar(source1, source2) ==
  Exceeds(_text_similarity(source1.title, source2.title), config.similarity_threshold)

\* a time check that lets every pair through
WithinWindow_Always(source1, source2, time_window) == TRUE

\* the time check of _are_similar: FALSE when the two are further apart
\* than the window
WithinWindow(source1, source2, time_window) ==
  ~(Abs(EffectiveTime(source1) - EffectiveTime(source2)) > time_window)

\* _are_similar without its title rule
_are_similar_NoTitle(source1, source2, time_window) ==
  LET content_sim == _text_similarity(Prefix(source1.content, ContentSample),
                                      Prefix(source2.content, ContentSample))
  IN IF ~WithinWindow(source1, source2, time_window) THEN FALSE
     ELSE IF Exceeds(content_sim, config.similarity_threshold) THEN TRUE
     ELSE IF _same_domain(source1.url, source2.url) /\ Exceeds(content_sim, 5) THEN TRUE
     ELSE FALSE

_are_similar(source1, source2, time_window) ==
  LET content_sim == _text_similarity(Prefix(source1.content, ContentSample),
                                      Prefix(source2.content, ContentSample))
  IN IF ~WithinWindow(source1, source2, time_window) THEN FALSE
     ELSE IF TitleSimilar(source1, source2) THEN TRUE
     ELSE IF Exceeds(content_sim, config.similarity_threshold) THEN TRUE
     ELSE IF _same_domain(source1.url, source2.url) /\ Exceeds(content_sim, 5) THEN TRUE
     ELSE FALSE

\* the batch in the order given
SortedByTime_Unsorted(srcs) == srcs

\* sorted(sources, key=lambda s: s.published_at or s.retrieved_at): a
\* stable sort, items of equal time keep their input order
SortedByTime(srcs) ==
  LET before(i, j) == \/ EffectiveTime(srcs[i]) < EffectiveTime(srcs[j])
                      \/ EffectiveTime(srcs[i]) = EffectiveTime(srcs[j]) /\ i < j
      rank(i) == Cardinality({ j \in DOMAIN srcs : before(j, i) }) + 1
  IN [r \in DOMAIN srcs |-> srcs[CHOOSE i \in DOMAIN srcs : rank(i) = r]]

\* the inner loop without processed.add(other.source_id)
RECURSIVE ScanOthers_NoMark(_, _, _, _, _, _)
ScanOthers_NoMark(j, anchor, sorted_sources, time_window, clu, processed) ==
  IF j > Len(sorted_sources) THEN [cluster |-> clu, processed |-> processed]
  ELSE LET other == sorted_sources[j]
       IN IF other.source_id \in processed
          THEN ScanOthers_NoMark(j + 1, anchor, sorted_sources, time_window, clu, processed)
          ELSE IF _are_similar(anchor, other, time_window)
          THEN ScanOthers_NoMark(j + 1, anchor, sorted_sources, time_window,
                                 Append(clu, other), processed)
          ELSE ScanOthers_NoMark(j + 1, anchor, sorted_sources, time_window, clu, processed)

\* an inner loop that compares with the member admitted last
RECURSIVE ScanOthers_Chained(_, _, _, _, _, _)
ScanOthers_Chained(j, anchor, sorted_sources, time_window, clu, processed) ==
  IF j > Len(sorted_sources) THEN [cluster |-> clu, processed |-> processed]
  ELSE LET other == sorted_sources[j]
       IN IF other.source_id \in processed
          THEN ScanOthers_Chained(j + 1, anchor, sorted_sources, time_window, clu, processed)
          ELSE IF _are_similar(clu[Len(clu)], other, time_window)
          THEN ScanOthers_Chained(j + 1, anchor, sorted_sources, time_window,
                                  Append(clu, other), processed \cup {other.source_id})
          ELSE ScanOthers_Chained(j + 1, anchor, sorted_sources, time_window, clu, processed)

\* the inner loop of cluster_sources from position j on: the cluster of
\* the anchor and the set processed
RECURSIVE ScanOthers(_, _, _, _, _, _)
ScanOthers(j, anchor, sorted_sources, time_window, clu, processed) ==
  IF j > Len(sorted_sources) THEN [cluster |-> clu, processed |-> processed]
  ELSE LET other == sorted_sources[j]
       IN IF other.source_id \in processed
          THEN ScanOthers(j + 1, anchor, sorted_sources, time_window, clu, processed)
          ELSE IF _are_similar(anchor, other, time_window)
          THEN ScanOthers(j + 1, anchor, sorted_sources, time_window,
                          Append(clu, other), processed \cup {other.source_id})
          ELSE ScanOthers(j + 1, anchor, sorted_sources, time_window, clu, processed)

\* the outer loop of cluster_sources from position i on
RECURSIVE ClusterFrom(_, _, _, _, _)
ClusterFrom(i, sorted_sources, time_window, processed, acc) ==
  IF i > Len(sorted_sources) THEN acc
  ELSE LET source == sorted_sources[i]
       IN IF source.source_id \in processed
          THEN ClusterFrom(i + 1, sorted_sources, time_window, processed, acc)
          ELSE LET r == ScanOthers(1, source, sorted_sources, time_window,
                                   <<source>>, processed \cup {source.source_id})
               IN ClusterFrom(i + 1, sorted_sources, time_window, r.processed,
                              Append(acc, r.cluster))

\* no clustering: every item is a cluster of its own
cluster_sources_Singletons(srcs) == [i \in DOMAIN srcs |-> <<SortedByTime(srcs)[i]>>]

\* cluster_sources: the batch sorted by time, then the two loops
cluster_sources(srcs) ==
  ClusterFrom(1, SortedByTime(srcs), config.time_window_hours, {}, <<>>)

-----------------------------------------------------------------------------
(* The specification of cluster_sources: a batch is drawn, then clustered. *)

\* every item of a batch was retrieved by the run that clusters it
RetrievedAt == MaxTime

\* an item carries no published time or one before its retrieval
PublishedTimes == {None} \cup { Some(t) : t \in 0..(RetrievedAt - 1) }

\* the sequences of n distinct pool items
PoolPicks(n) ==
  { ix \in [1..n -> DOMAIN SourcePool] : \A i, j \in 1..n : i # j => ix[i] # ix[j] }

\* the batch of the items picked, each with its published time
Batch(ix, pub) ==
  [i \in DOMAIN ix |-> RawSource(SourcePool[ix[i]], pub[i], RetrievedAt)]

NoAssessment == [target |-> ""]

InitCluster ==
  /\ config \in ClusterConfigs
  /\ \E n \in 0..MaxBatch : \E ix \in PoolPicks(n) : \E pub \in [1..n -> PublishedTimes] :
       sources = Batch(ix, pub)
  /\ now = RetrievedAt
  /\ clusters = <<>>
  /\ cluster = <<>>
  /\ extracted = <<>>
  /\ events = <<>>
  /\ extractLog = {}
  /\ scoreIn = <<>>
  /\ assessment = NoAssessment
  /\ assessments = <<>>
  /\ historical = <<>>
  /\ cursor = 1
  /\ run = 1
  /\ pc = "start"

\* step 3 of run_full_pipeline: clusters = cluster_sources(normalized_sources)
ClusterSources ==
  /\ pc = "start"
  /\ clusters' = cluster_sources(sources)
  /\ pc' = "clustered"
  /\ UNCHANGED <<config, now, sources, cluster, extracted, events, extractLog,
                 scoreIn, assessment, assessments, historical, cursor, run>>

NextCluster == ClusterSources

SpecCluster == InitCluster /\ [][NextCluster]_vars

-----------------------------------------------------------------------------
(* Event extraction (src/src/event_extraction.py).                         *)

\* The table of _detect_event_type, in its declaration order.  A pattern
\* is the sequence of the literals its regular expression joins with ".*".
EventPatterns == <<
  [event_type |-> "government_change",
   patterns |-> << <<"government", "change">>, <<"leadership", "transition">>,
                   <<"new", "prime minister">>, <<"president", "resign">>,
                   <<"coup">>, <<"overthrow">> >>],
  [event_type |-> "election",
   patterns |-> << <<"election">>, <<"vote">>, <<"ballot">>, <<"referendum">>,
                   <<"polling">> >>],
  [event_type |-> "sanctions",
   patterns |-> << <<"sanction">>, <<"embargo">>, <<"trade ban">>,
                   <<"economic", "penalty">> >>],
  [event_type |-> "armed_conflict",
   patterns |-> << <<"armed conflict">>, <<"war">>, <<"battle">>,
                   <<"military", "attack">>, <<"airstrike">>, <<"bombing">>,
                   <<"combat">> >>],
  [event_type |-> "ceasefire",
   patterns |-> << <<"ceasefire">>, <<"truce">>, <<"peace", "agreement">>,
                   <<"armistice">> >>],
  [event_type |-> "terrorist_attack",
   patterns |-> << <<"terrorist", "attack">>, <<"bombing">>, <<"assassination">>,
                   <<"insurgent">> >>],
  [event_type |-> "civil_unrest",
   patterns |-> << <<"protest">>, <<"demonstration">>, <<"riot">>,
                   <<"civil", "unrest">>, <<"strike">>, <<"uprising">> >>],
  [event_type |-> "border_incident",
   patterns |-> << <<"border", "incident">>, <<"territorial", "dispute">>,
                   <<"border", "clash">> >>],
  [event_type |-> "trade_restriction",
   patterns |-> << <<"trade", "restriction">>, <<"tariff">>, <<"import", "ban">>,
                   <<"export", "ban">> >>],
  [event_type |-> "economic_crisis",
   patterns |-> << <<"economic", "crisis">>, <<"recession">>,
                   <<"inflation", "surge">>, <<"currency", "collapse">>,
                   <<"default">> >>],
  [event_type |-> "infrastructure_disruption",
   patterns |-> << <<"infrastructure", "disruption">>, <<"pipeline", "attack">>,
                   <<"port", "closure">>, <<"power", "outage">>,
                   <<"grid", "failure">> >>],
  [event_type |-> "natural_disaster",
   patterns |-> << <<"earthquake">>, <<"flood">>, <<"tsunami">>,
                   <<"natural", "disaster">> >>],
  [event_type |-> "diplomatic_rupture",
   patterns |-> << <<"diplomatic", "rupture">>, <<"recall", "envoy">>,
                   <<"expel", "diplomat">>, <<"break", "relations">> >>],
  [event_type |-> "military_mobilization",
   patterns |-> << <<"military", "mobilization">>, <<"troop", "movement">>,
                   <<"military", "exercise">>, <<"deployment">> >>],
  [event_type |-> "cyber_incident",
   patterns |-> << <<"cyber", "attack">>, <<"hack">>, <<"data", "breach">>,
                   <<"cyber", "incident">> >>],
  [event_type |-> "legal_change",
   patterns |-> << <<"law", "change">>, <<"regulation", "change">>,
                   <<"legal", "reform">>, <<"constitutional", "change">> >>],
  [event_type |-> "strategic_investment",
   patterns |-> << <<"strategic", "investment">>, <<"nationalization">>,
                   <<"state", "takeover">> >>] >>

\* "." matches any character but a newline: no newline in text[a..b]
NoNewline(text, a, b) == \A k \in a..b : CharAt(text, k) # "\n"

\* the literals of parts occur in order from position from on, each run
\* ".*" between two of them free of newlines
RECURSIVE MatchParts(_, _, _)
MatchParts(parts, text, from) ==
  IF parts = <<>> THEN TRUE
  ELSE \E i \in Occurrences(Head(parts), text) :
         /\ i >= from
         /\ NoNewline(text, from, i - 1)
         /\ MatchParts(Tail(parts), text, i + Len(Head(parts)))

\* re.search(pattern, text)
RegexSearch(parts, text) ==
  \E i \in Occurrences(Head(parts), text) :
    MatchParts(Tail(parts), text, i + Len(Head(parts)))

\* any(re.search(pattern, text) for pattern in the patterns of kind k)
KindMatches(k, text) ==
  \E j \in DOMAIN EventPatterns[k].patterns :
    RegexSearch(EventPatterns[k].patterns[j], text)

\* the loop of _detect_event_type from kind k on, keeping the last kind
\* that matches instead of returning at the first
RECURSIVE DetectFrom_Last(_, _)
DetectFrom_Last(k, text) ==
  IF k > Len(EventPatterns) THEN None
  ELSE LET later == DetectFrom_Last(k + 1, text)
       IN IF later # None THEN later
          ELSE IF KindMatches(k, text) THEN Some(EventPatterns[k].event_type)
          ELSE None

\* the loop of _detect_event_type from kind k on: the first kind, in the
\* order of the table, with a pattern found in text; None when there is none
RECURSIVE DetectFrom(_, _)
DetectFrom(k, text) ==
  IF k > Len(EventPatterns) THEN None
  ELSE IF KindMatches(k, text) THEN Some(EventPatterns[k].event_type)
  ELSE DetectFrom(k + 1, text)

\* f"{source.title} {source.content}"
TitleAndContent(title, content) == title \o " " \o content

\* the kind of every pool text, computed once
DetectedOf ==
  [tc \in { <<p.title, p.content>> : p \in AllPoolItems } |->
     DetectFrom(1, Lower(TitleAndContent(tc[1], tc[2])))]

_detect_event_type(source) ==
  IF <<source.title, source.content>> \in DOMAIN DetectedOf
  THEN DetectedOf[<<source.title, source.content>>]
  ELSE DetectFrom(1, Lower(TitleAndContent(source.title, source.content)))

\* the names a monitored_countries list of the model may hold
CountryNames == {"Country A", "Niger", "Nigeria"}

\* country.lower() in text.lower(), for every pool text, computed once
MentionsOf ==
  [tc \in { p.title : p \in AllPoolItems }
            \cup { TitleAndContent(p.title, p.content) : p \in AllPoolItems } |->
     { c \in CountryNames : Contains(Lower(tc), Lower(c)) }]

Mentions(text, country) ==
  IF text \in DOMAIN MentionsOf /\ country \in CountryNames
  THEN country \in MentionsOf[text]
  ELSE Contains(Lower(text), Lower(country))

\* the longest of the countries of the list that text mentions
FirstMentioned_Longest(countries, i, text) ==
  LET hits == { j \in i..Len(countries) : Mentions(text, countries[j]) }
  IN IF hits = {} THEN None
     ELSE Some(countries[CHOOSE j \in hits :
                           \A h \in hits : Len(countries[h]) <= Len(countries[j])])

\* the first country of the list, from position i on, that text mentions
RECURSIVE FirstMentioned(_, _, _)
FirstMentioned(countries, i, text) ==
  IF i > Len(countries) THEN None
  ELSE IF Mentions(text, countries[i]) THEN Some(countries[i])
  ELSE FirstMentioned(countries, i + 1, text)

_extract_location(source) ==
  LET inText == FirstMentioned(config.monitored_countries, 1,
                               TitleAndContent(source.title, source.content))
  IN IF inText # None THEN inText
     ELSE FirstMentioned(config.monitored_countries, 1, source.title)

\* str.strip()
RECURSIVE Strip(_)
Strip(s) ==
  IF Len(s) = 0 THEN s
  ELSE IF IsSpace(CharAt(s, 1)) THEN Strip(SubSeq(s, 2, Len(s)))
  ELSE IF IsSpace(CharAt(s, Len(s))) THEN Strip(SubSeq(s, 1, Len(s) - 1))
  ELSE s

\* content.split('.')[0]
FirstSentence(content) ==
  LET dots == Occurrences(".", content)
  IN IF dots = {} THEN content
     ELSE SubSeq(content, 1, (CHOOSE i \in dots : \A j \in dots : i <= j) - 1)

\* the longest summary kept
SummaryLimit == 500

BuildSummary(title, content) ==
  LET first_sentence == Strip(FirstSentence(content))
      summary == IF Len(first_sentence) > 0 /\ ~Contains(Lower(title), Lower(first_sentence))
                 THEN title \o ". " \o first_sentence
                 ELSE title
  IN Prefix(summary, SummaryLimit)

SummaryOf ==
  [tc \in { <<p.title, p.content>> : p \in AllPoolItems } |-> BuildSummary(tc[1], tc[2])]

_build_summary(source, event_type) ==
  IF <<source.title, source.content>> \in DOMAIN SummaryOf
  THEN SummaryOf[<<source.title, source.content>>]
  ELSE BuildSummary(source.title, source.content)

\* the tags of _extract_impact_tags by event type
TypeTags(event_type) ==
  CASE event_type = "sanctions" -> {"trade", "economic"}
    [] event_type = "trade_restriction" -> {"trade", "economic"}
    [] event_type = "armed_conflict" -> {"security", "infrastructure"}
    [] event_type = "infrastructure_disruption" -> {"infrastructure", "economic"}
    [] event_type = "cyber_incident" -> {"infrastructure", "security"}
    [] OTHER -> {}

\* the tags of _extract_impact_tags by the keywords of the content
KeywordTags(content) ==
  LET text == Lower(content)
      any(ws) == \E w \in ws : Contains(text, w)
  IN (IF any({"trade", "export", "import"}) THEN {"trade"} ELSE {})
       \cup (IF any({"security", "military", "defense"}) THEN {"security"} ELSE {})
       \cup (IF any({"infrastructure", "port", "pipeline"}) THEN {"infrastructure"} ELSE {})

KeywordTagsOf == [c \in { p.content : p \in AllPoolItems } |-> KeywordTags(c)]

\* list(set(tags)): the tags, in no order
_extract_impact_tags(source, event_type) ==
  TypeTags(event_type)
    \cup (IF source.content \in DOMAIN KeywordTagsOf THEN KeywordTagsOf[source.content]
          ELSE KeywordTags(source.content))

\* tier_weights.get(primary_tier.value, 0.5), in tenths
TierWeight(tier) ==
  CASE tier = "A" -> 9
    [] tier = "B" -> 7
    [] tier = "C" -> 5
    [] tier = "D" -> 3
    [] OTHER -> 5

\* the corroboration counted by items, not by distinct source names
UniqueSources_Items(srcs) == Len(srcs)

\* len(set(s.source_name for s in sources))
UniqueSources(srcs) == Cardinality({ srcs[i].source_name : i \in DOMAIN srcs })

\* _calculate_confidence, in tenths
_calculate_confidence(srcs) ==
  IF srcs = <<>> THEN 0
  ELSE LET base == TierWeight(srcs[1].tier)
           unique_sources == UniqueSources(srcs)
           boost1 == IF unique_sources >= 2 THEN Min(10, base + 1) ELSE base
           boost2 == IF unique_sources >= 3 THEN Min(10, boost1 + 1) ELSE boost1
       IN IF \A i \in DOMAIN srcs : srcs[i].tier = "D" THEN Min(boost2, 3) ELSE boost2

\* datetime.isoformat()
IsoFormat(t) == ToString(t)

\* hashlib.sha256(combined.encode()).hexdigest()[:16]: the digest stands
\* for the string digested (no two strings of the model collide)
Sha256Hex16(combined) == "sha256:" \o combined

\* an id that takes the time of the call for the event's timestamp
_generate_event_id_Now(event_type, location, timestamp, source_id) ==
  Sha256Hex16(event_type \o "|" \o location \o "|" \o IsoFormat(now) \o "|" \o source_id)

_generate_event_id(event_type, location, timestamp, source_id) ==
  Sha256Hex16(event_type \o "|" \o location \o "|" \o IsoFormat(timestamp) \o "|" \o source_id)

\* RawSource.to_citation (src/src/models.py)
to_citation(s) ==
  [url |-> s.url, title |-> s.title, source_name |-> s.source_name, tier |-> s.tier,
   published_at |-> s.published_at, retrieved_at |-> s.retrieved_at]

\* the label with > for >=
ConfidenceLabel_Strict(confidence) ==
  IF confidence > 7 THEN "High" ELSE IF confidence > 4 THEN "Medium" ELSE "Low"

\* the label of Event.update_confidence (src/src/models.py)
ConfidenceLabel(confidence) ==
  IF confidence >= 7 THEN "High" ELSE IF confidence >= 4 THEN "Medium" ELSE "Low"

\* Event.update_confidence
update_confidence(event, new_confidence) ==
  LET c == Max(0, Min(10, new_confidence))
  IN [event EXCEPT !.confidence = c,
                   !.confidence_label = ConfidenceLabel(c),
                   !.updated_at = now]

\* extract_events that makes an event of a cluster without a location
extract_events_NoLocationCheck(source_cluster) ==
  LET primary_source == source_cluster[1]
      event_type == _detect_event_type(primary_source)
      location == _extract_location(primary_source)
  IN IF event_type = None THEN <<>>
     ELSE << [event_id |-> "", event_type |-> event_type[1],
              timestamp |-> EffectiveTime(primary_source),
              location |-> IF location = None THEN "" ELSE location[1],
              entities |-> <<>>,
              summary |-> "", sources |-> <<>>,
              confidence |-> _calculate_confidence(source_cluster),
              confidence_label |-> ConfidenceLabel(_calculate_confidence(source_cluster)),
              impact_tags |-> {}, evidence_links |-> <<>>,
              created_at |-> now, updated_at |-> now] >>

\* extract_events: no event, or the one event of the cluster
extract_events(source_cluster) ==
  LET primary_source == source_cluster[1]
      event_type == _detect_event_type(primary_source)
      location == _extract_location(primary_source)
      timestamp == EffectiveTime(primary_source)
      confidence == _calculate_confidence(source_cluster)
      event == [event_id |-> _generate_event_id(event_type[1], location[1], timestamp,
                                                primary_source.source_id),
                event_type |-> event_type[1],
                timestamp |-> timestamp,
                location |-> location[1],
                entities |-> <<>>,
                summary |-> _build_summary(primary_source, event_type[1]),
                sources |-> [i \in 1..Min(Len(source_cluster),
                                           config.max_sources_per_cluster) |->
                               to_citation(source_cluster[i])],
                confidence |-> confidence,
                confidence_label |-> "Medium",
                impact_tags |-> _extract_impact_tags(primary_source, event_type[1]),
                evidence_links |-> [i \in DOMAIN source_cluster |-> source_cluster[i].url],
                created_at |-> now,
                updated_at |-> now]
  IN IF event_type = None THEN <<>>
     ELSE IF location = None \/ location[1] = "" THEN <<>>
     ELSE << update_confidence(event, confidence) >>

-----------------------------------------------------------------------------
(* The events table (src/src/storage.py).                                  *)

\* the columns save_event writes for an event
EventRow(event) ==
  [event_id |-> event.event_id,
   event_type |-> event.event_type,
   timestamp |-> IsoFormat(event.timestamp),
   location |-> event.location,
   entities |-> event.entities,
   summary |-> event.summary,
   sources |-> event.sources,
   confidence |-> event.confidence,
   confidence_label |-> event.confidence_label,
   impact_tags |-> event.impact_tags,
   evidence_links |-> event.evidence_links,
   created_at |-> IsoFormat(event.created_at),
   updated_at |-> IsoFormat(event.updated_at)]

\* a plain INSERT that keeps the row already stored under the id
save_event_Append(table, event) == Append(table, EventRow(event))

\* an insert that leaves the row already stored under the id as it is
save_event_KeepFirst(table, event) ==
  IF \E i \in DOMAIN table : table[i].event_id = event.event_id
  THEN table ELSE Append(table, EventRow(event))

\* INSERT OR REPLACE INTO events: event_id is the primary key
save_event(table, event) ==
  Append(SelectSeq(table, LAMBDA row : row.event_id # event.event_id), EventRow(event))

\* for event in events: self.storage.save_event(event)
RECURSIVE SaveAll(_, _)
SaveAll(table, evs) ==
  IF evs = <<>> THEN table ELSE SaveAll(save_event(table, Head(evs)), Tail(evs))

-----------------------------------------------------------------------------
(* Step 4 of run_full_pipeline (src/src/pipeline.py): each cluster is      *)
(* handed to extract_events and the events returned are saved.             *)

\* events = self.event_extractor.extract_events(cluster)
ExtractEvents ==
  /\ pc = "clustered"
  /\ cursor <= Len(clusters)
  /\ cluster' = clusters[cursor]
  /\ extracted' = extract_events(clusters[cursor])
  /\ extractLog' = extractLog \cup
       { [cluster |-> clusters[cursor], at |-> now,
          events |-> extract_events(clusters[cursor])] }
  /\ pc' = "extracted"
  /\ UNCHANGED <<config, now, sources, clusters, events, scoreIn, assessment, assessments,
                 historical, cursor, run>>

\* for event in events: self.storage.save_event(event); next cluster
SaveEvents ==
  /\ pc = "extracted"
  /\ events' = SaveAll(events, extracted)
  /\ cursor' = cursor + 1
  /\ pc' = "clustered"
  /\ UNCHANGED <<config, now, sources, clusters, cluster, extracted, extractLog,
                 scoreIn, assessment, assessments, historical, run>>

-----------------------------------------------------------------------------
(* The specification of extract_events: one cluster is drawn, an anchor    *)
(* with its corroborating items, extracted and saved to a store that is    *)
(* empty or holds the event of an earlier run.                             *)

Tiers == {"A", "B", "C", "D"}
SourceNames == {"Source1", "Source2", "Source3"}

\* the anchor of a cluster: a pool text from a source of some tier
Anchor(k, tier, published_at) ==
  RawSource([source_id |-> ExtractPool[k].source_id, url |-> ExtractPool[k].url,
             title |-> ExtractPool[k].title, content |-> ExtractPool[k].content,
             source_name |-> "Source1", tier |-> tier],
            published_at, RetrievedAt)

\* the j-th corroborating item of a cluster
Member(j, m) ==
  RawSource([source_id |-> "m" \o ToString(j),
             url |-> "https://other.com/m" \o ToString(j),
             title |-> SourcePool[4].title, content |-> SourcePool[4].content,
             source_name |-> m[2], tier |-> m[1]],
            None, RetrievedAt)

MemberKinds == {"B", "D"} \X SourceNames

MonitoredLists ==
  { <<"Country A", "Niger", "Nigeria">>, <<"Nigeria", "Niger", "Country A">>,
    <<"Nigeria">> }

ExtractConfigs ==
  { [BaseConfig EXCEPT !.monitored_countries = mc] : mc \in MonitoredLists }

\* the cluster an earlier run extracted and saved
StoredCluster == <<Anchor(1, "B", Some(0))>>

InitExtract ==
  /\ config \in ExtractConfigs
  /\ \E k \in DOMAIN ExtractPool : \E tier \in Tiers :
       \E pub \in {None, Some(0)} :
         \E n \in 0..MaxMembers : \E ms \in [1..n -> MemberKinds] :
           clusters = << <<Anchor(k, tier, pub)>> \o [j \in 1..n |-> Member(j, ms[j])] >>
  /\ now = RetrievedAt
  /\ sources = <<>>
  /\ cluster = <<>>
  /\ extracted = <<>>
  /\ events \in {<<>>, SaveAll(<<>>, extract_events(StoredCluster))}
  /\ extractLog = {}
  /\ scoreIn = <<>>
  /\ assessment = NoAssessment
  /\ assessments = <<>>
  /\ historical = <<>>
  /\ cursor = 1
  /\ run = 1
  /\ pc = "clustered"

NextExtract == ExtractEvents \/ SaveEvents

SpecExtract == InitExtract /\ [][NextExtract]_vars

-----------------------------------------------------------------------------
(* The specification of repeated pipeline runs over one store: each run    *)
(* fetches a batch, clusters it, and extracts and saves cluster by         *)
(* cluster, while the clock advances.                                      *)

\* the items a feed may return to a run, each with what the feed says of
\* its publication (the same at every fetch)
RunPool == <<
  [item |-> SourcePool[1], published_at |-> Some(0)],
  [item |-> SourcePool[2], published_at |-> None],
  [item |-> [source_id |-> ExtractPool[3].source_id, url |-> ExtractPool[3].url,
             title |-> ExtractPool[3].title, content |-> ExtractPool[3].content,
             source_name |-> "Source3", tier |-> "C"],
   published_at |-> Some(0)] >>

\* the sequences of n distinct items of the feed
RunPicks(n) ==
  { ix \in [1..n -> DOMAIN RunPool] : \A i, j \in 1..n : i # j => ix[i] # ix[j] }

StoreConfig == [BaseConfig EXCEPT !.time_window_hours = 2]

InitStore ==
  /\ config = StoreConfig
  /\ now = 1
  /\ sources = <<>>
  /\ clusters = <<>>
  /\ cluster = <<>>
  /\ extracted = <<>>
  /\ events = <<>>
  /\ extractLog = {}
  /\ scoreIn = <<>>
  /\ assessment = NoAssessment
  /\ assessments = <<>>
  /\ historical = <<>>
  /\ cursor = 1
  /\ run = 0
  /\ pc = "idle"

\* steps 1 and 2 of run_full_pipeline: the items fetched are stamped with
\* the time of the fetch
Ingest ==
  /\ pc = "idle"
  /\ run < MaxRuns
  /\ \E n \in 0..Len(RunPool) : \E ix \in RunPicks(n) :
       sources' = [i \in 1..n |->
                     RawSource(RunPool[ix[i]].item, RunPool[ix[i]].published_at, now)]
  /\ run' = run + 1
  /\ cursor' = 1
  /\ pc' = "start"
  /\ UNCHANGED <<config, now, clusters, cluster, extracted, events, extractLog,
                 scoreIn, assessment, assessments, historical>>

\* the loop of step 4 has gone through every cluster
EndRun ==
  /\ pc = "clustered"
  /\ cursor > Len(clusters)
  /\ pc' = "idle"
  /\ UNCHANGED <<config, now, sources, clusters, cluster, extracted, events,
                 extractLog, scoreIn, assessment, assessments, historical, cursor, run>>

\* time passes
Tick ==
  /\ pc \in {"idle", "clustered"}
  /\ now < MaxNow
  /\ now' = now + 1
  /\ UNCHANGED <<config, sources, clusters, cluster, extracted, events, extractLog,
                 scoreIn, assessment, assessments, historical, cursor, run, pc>>

NextStore == Ingest \/ ClusterSources \/ ExtractEvents \/ SaveEvents \/ EndRun \/ Tick

SpecStore == InitStore /\ [][NextStore]_vars

-----------------------------------------------------------------------------
(* The scoring engine (src/src/scoring.py).  Dimension values are whole    *)
(* thousandths of a score point; the overall score, the deltas and the     *)
(* assessment confidence are exact fractions <<numerator, denominator>>.   *)

RECURSIVE GCD(_, _)
GCD(a, b) == IF b = 0 THEN a ELSE GCD(b, a % b)

\* the fraction n/d in lowest terms, d > 0
Rat(n, d) == LET g == GCD(Abs(n), d) IN <<n \div g, d \div g>>

RatSub(a, b) == Rat(a[1] * b[2] - b[1] * a[2], a[2] * b[2])
RatAdd(a, b) == Rat(a[1] * b[2] + b[1] * a[2], a[2] * b[2])
RatLeq(a, b) == a[1] * b[2] <= b[1] * a[2]
RatMin(a, b) == IF RatLeq(a, b) THEN a ELSE b

\* hours of a day
Day == 24

\* baseline = 70.0, and the bounds of max(0.0, min(100.0, ...))
Baseline == 70000
ScoreMin == 0
ScoreMax == 100000

\* the default of Config.get_event_type_config
DefaultEventConfig == [severity_base |-> 5, sub_score_weights |-> <<>>]

\* Config.get_event_type_config (src/src/config.py)
get_event_type_config(event_type) ==
  IF event_type \in DOMAIN config.event_types
  THEN config.event_types[event_type]
  ELSE DefaultEventConfig

\* sub_score_weights.get(dimension, 0.0)
DimensionWeight(event_config, dimension) ==
  IF dimension \in DOMAIN event_config.sub_score_weights
  THEN event_config.sub_score_weights[dimension]
  ELSE 0

\* no filter: every event counts
ValidEvents_All(evs) == evs

\* the filter of calculate_assessment: e.confidence >= min_confidence
ValidEvents(evs) == SelectSeq(evs, LAMBDA e : e.confidence >= config.min_confidence)

\* the impact of an event without its confidence
EventImpact_NoConfidence(dimension, event) ==
  LET event_config == get_event_type_config(event.event_type)
  IN event_config.severity_base * DimensionWeight(event_config, dimension) * 10 * 20

\* severity * dimension_weight * event.confidence * 20.0, in thousandths;
\* nothing for a dimension weight of 0.0
EventImpact(dimension, event) ==
  LET event_config == get_event_type_config(event.event_type)
      severity == event_config.severity_base
      dimension_weight == DimensionWeight(event_config, dimension)
  IN IF dimension_weight = 0 THEN 0
     ELSE severity * dimension_weight * event.confidence * 20

\* events add to a score instead of taking from it
_calculate_dimension_impact_Negated(dimension, evs) ==
  0 - SumSeq([i \in DOMAIN evs |-> EventImpact(dimension, evs[i])])

\* the sum of the impacts of the events on a dimension
_calculate_dimension_impact(dimension, evs) ==
  SumSeq([i \in DOMAIN evs |-> EventImpact(dimension, evs[i])])

\* get_historical_assessments (src/src/storage.py): the rows of the target
\* not older than days, by generated_at
RECURSIVE SortedByGenerated(_)
SortedByGenerated(rows) ==
  IF rows = <<>> THEN <<>>
  ELSE LET i == CHOOSE i \in DOMAIN rows :
                  \A j \in DOMAIN rows :
                    \/ rows[i].generated_at < rows[j].generated_at
                    \/ rows[i].generated_at = rows[j].generated_at /\ i <= j
       IN <<rows[i]>> \o SortedByGenerated(SubSeq(rows, 1, i - 1) \o SubSeq(rows, i + 1, Len(rows)))

\* the snapshots of every target
get_historical_assessments_AnyTarget(target, days) ==
  SortedByGenerated(SelectSeq(historical,
    LAMBDA row : row.generated_at >= now - days * Day))

\* the snapshots of the target, however old
get_historical_assessments_WholeLog(target, days) ==
  SortedByGenerated(SelectSeq(historical, LAMBDA row : row.target = target))

\* the rows of the target generated within the last days days
get_historical_assessments(target, days) ==
  SortedByGenerated(SelectSeq(historical,
    LAMBDA row : row.target = target /\ row.generated_at >= now - days * Day))

\* the most recent assessment, whatever the target date
Closest_Last(historical_assessments, target_date) ==
  historical_assessments[Len(historical_assessments)]

\* find_closest_score: the first assessment at the least distance from
\* target_date
Closest(historical_assessments, target_date) ==
  LET diff(i) == Abs(historical_assessments[i].generated_at - target_date)
  IN historical_assessments[
       CHOOSE i \in DOMAIN historical_assessments :
         /\ \A j \in DOMAIN historical_assessments : diff(i) <= diff(j)
         /\ \A j \in 1..(i - 1) : diff(j) > diff(i)]

\* the periods of the deltas, in days
DeltaDays == <<7, 30, 90>>

\* the history window of the deltas, in days
HistoryDays == 90

NoDeltas == [p \in DOMAIN DeltaDays |-> <<0, 1>>]

_calculate_deltas(target, current_score) ==
  LET historical_assessments == get_historical_assessments(target, HistoryDays)
  IN IF historical_assessments = <<>> THEN NoDeltas
     ELSE [p \in DOMAIN DeltaDays |->
             RatSub(current_score,
                    Closest(historical_assessments, now - DeltaDays[p] * Day).overall_score)]

\* Assessment.get_sub_score (src/src/models.py)
get_sub_score(sub_scores, name) ==
  LET hits == { i \in DOMAIN sub_scores : sub_scores[i].name = name }
  IN IF hits = {} THEN None
     ELSE Some(sub_scores[CHOOSE i \in hits : \A j \in hits : i <= j])

_calculate_sub_score_deltas(target, dimension, current_value) ==
  LET historical_assessments == get_historical_assessments(target, HistoryDays)
      value_at(p) ==
        LET sub_score == get_sub_score(
              Closest(historical_assessments, now - DeltaDays[p] * Day).sub_scores,
              dimension)
        IN IF sub_score = None THEN current_value ELSE sub_score[1].value
  IN IF historical_assessments = <<>> THEN NoDeltas
     ELSE [p \in DOMAIN DeltaDays |-> Rat(current_value - value_at(p), 1)]

\* the order of two characters, by code point
AsciiOrder == " 0123456789:ABCDEFGHIJKLMNOPQRSTUVWXYZ_abcdefghijklmnopqrstuvwxyz|"
CharRank(c) == CHOOSE i \in 1..Len(AsciiOrder) : CharAt(AsciiOrder, i) = c

\* a < b for two strings
RECURSIVE StrLess(_, _)
StrLess(a, b) ==
  IF Len(b) = 0 THEN FALSE
  ELSE IF Len(a) = 0 THEN TRUE
  ELSE IF CharAt(a, 1) = CharAt(b, 1)
       THEN StrLess(SubSeq(a, 2, Len(a)), SubSeq(b, 2, Len(b)))
  ELSE CharRank(CharAt(a, 1)) < CharRank(CharAt(b, 1))

\* a >= b on the impact score alone
ScoredGeq_ImpactOnly(a, b) == a[1] >= b[1]

\* a >= b for two tuples (impact_score, event_id)
ScoredGeq(a, b) ==
  \/ a[1] > b[1]
  \/ a[1] = b[1] /\ ~StrLess(a[2], b[2])

\* scored_events.sort(reverse=True)
RECURSIVE SortReverse(_)
SortReverse(scored) ==
  IF scored = <<>> THEN <<>>
  ELSE LET i == CHOOSE i \in DOMAIN scored :
                  /\ \A j \in DOMAIN scored : ScoredGeq(scored[i], scored[j])
                  /\ \A j \in 1..(i - 1) : scored[j] # scored[i]
       IN <<scored[i]>> \o SortReverse(SubSeq(scored, 1, i - 1) \o SubSeq(scored, i + 1, Len(scored)))

\* the first ids in the order of the event list, without the sort
TopIds_Unsorted(scored, limit) == [i \in 1..Min(limit, Len(scored)) |-> scored[i][2]]

\* [event_id for _, event_id in scored_events[:limit]]
TopIds(scored, limit) ==
  LET sorted == SortReverse(scored)
  IN [i \in 1..Min(limit, Len(sorted)) |-> sorted[i][2]]

TopDriversLimit == 5
DimensionDriversLimit == 3

_get_top_drivers(evs) ==
  TopIds([i \in DOMAIN evs |->
            <<get_event_type_config(evs[i].event_type).severity_base * evs[i].confidence,
              evs[i].event_id>>],
         TopDriversLimit)

_get_dimension_drivers(dimension, evs) ==
  LET weighted == SelectSeq(evs, LAMBDA e :
                    DimensionWeight(get_event_type_config(e.event_type), dimension) # 0)
  IN TopIds([i \in DOMAIN weighted |->
               LET event_config == get_event_type_config(weighted[i].event_type)
               IN <<event_config.severity_base * DimensionWeight(event_config, dimension)
                      * weighted[i].confidence,
                    weighted[i].event_id>>],
            DimensionDriversLimit)

\* score_value = max(0.0, min(100.0, baseline - impact)), in thousandths
ScoreValue(dimension, evs) ==
  LET impact == _calculate_dimension_impact(dimension, evs)
  IN Max(ScoreMin, Min(ScoreMax, Baseline - impact))

_calculate_sub_scores(target, evs) ==
  [i \in DOMAIN config.weights |->
     LET name == config.weights[i].name
         score_value == ScoreValue(name, evs)
         deltas == _calculate_sub_score_deltas(target, name, score_value)
     IN [name |-> name, value |-> score_value,
         delta_7d |-> deltas[1], delta_30d |-> deltas[2], delta_90d |-> deltas[3],
         drivers |-> _get_dimension_drivers(name, evs)]]

\* every dimension weighs the same
ConfiguredWeight_One(name) == 1

\* self.config.scoring.weights.get(sub_score.name, 0.0)
ConfiguredWeight(name) ==
  LET hits == { i \in DOMAIN config.weights : config.weights[i].name = name }
  IN IF hits = {} THEN 0 ELSE config.weights[CHOOSE i \in hits : TRUE].weight

_calculate_overall_score(sub_scores) ==
  LET total == SumSeq([i \in DOMAIN sub_scores |->
                         sub_scores[i].value * ConfiguredWeight(sub_scores[i].name)])
      total_weight == SumSeq([i \in DOMAIN sub_scores |->
                                ConfiguredWeight(sub_scores[i].name)])
  IN IF total_weight = 0 THEN <<Baseline, 1>> ELSE Rat(total, total_weight)

\* the confidence without events, the boost and the number of events it takes
NoEventsConfidence == 3
ManyEvents == 5

\* in tenths
_calculate_assessment_confidence(evs) ==
  IF evs = <<>> THEN <<NoEventsConfidence, 1>>
  ELSE LET avg_confidence == Rat(SumSeq([i \in DOMAIN evs |-> evs[i].confidence]), Len(evs))
       IN IF Len(evs) >= ManyEvents
          THEN RatMin(<<10, 1>>, RatAdd(avg_confidence, <<1, 1>>))
          ELSE avg_confidence

\* calculate_assessment from the overall score on, the sub-scores computed
BuildAssessment(target, valid_events, sub_scores) ==
  LET overall_score == _calculate_overall_score(sub_scores)
      deltas == _calculate_deltas(target, overall_score)
  IN [assessment_id |-> "assess_" \o target \o "_" \o IsoFormat(now),
      target |-> target,
      overall_score |-> overall_score,
      sub_scores |-> sub_scores,
      delta_7d |-> deltas[1], delta_30d |-> deltas[2], delta_90d |-> deltas[3],
      drivers |-> _get_top_drivers(valid_events),
      confidence |-> _calculate_assessment_confidence(valid_events),
      generated_at |-> now]

calculate_assessment(target, evs) ==
  LET valid_events == ValidEvents(evs)
  IN BuildAssessment(target, valid_events, _calculate_sub_scores(target, valid_events))

\* the row save_assessment writes to assessments (src/src/storage.py)
AssessmentRow(a) ==
  [assessment_id |-> a.assessment_id, target |-> a.target,
   overall_score |-> a.overall_score, sub_scores |-> a.sub_scores,
   delta_7d |-> a.delta_7d, delta_30d |-> a.delta_30d, delta_90d |-> a.delta_90d,
   drivers |-> a.drivers, confidence |-> a.confidence, generated_at |-> a.generated_at]

\* the row save_assessment writes to historical_assessments
HistoricalRow(a) ==
  [assessment_id |-> a.assessment_id, target |-> a.target,
   overall_score |-> a.overall_score, sub_scores |-> a.sub_scores,
   generated_at |-> a.generated_at]

\* one row per target, the way assessments are kept
save_assessment_historical_Replace(rows, a) ==
  Append(SelectSeq(rows, LAMBDA row : row.target # a.target), HistoricalRow(a))

\* the insert, after the rows older than the history window are removed
save_assessment_historical_Pruned(rows, a) ==
  Append(SelectSeq(rows, LAMBDA row : row.generated_at >= a.generated_at - HistoryDays * Day),
         HistoricalRow(a))

\* save_assessment: INSERT INTO historical_assessments
save_assessment_historical(rows, a) == Append(rows, HistoricalRow(a))

-----------------------------------------------------------------------------
(* The specification of calculate_assessment: an event list is scored for  *)
(* a target against the history earlier runs left, and the assessment is   *)
(* saved.                                                                  *)

\* the time of the scoring run, 100 days after the epoch of the model
ScoreNow == 100 * Day

\* the kinds and confidences of the events handed to the engine
ScoreEventKinds ==
  { <<"armed_conflict", 8>>, <<"armed_conflict", 4>>, <<"election", 5>>,
    <<"natural_disaster", 10>> }

\* event ids are digests: their order is not the order of the list
ScoreEventId(i) == "ev" \o ToString((i * 3) % 7)

ScoreEvent(i, kc) ==
  [event_id |-> ScoreEventId(i), event_type |-> kc[1], location |-> "Country A",
   confidence |-> kc[2], confidence_label |-> ConfidenceLabel(kc[2])]

Targets == {"Country A", "Nigeria"}

\* scoring.weights: two dimensions, one of them without weight, all weights
\* zero, no dimension
ScoreWeights ==
  { BaseConfig.weights,
    << [name |-> "political", weight |-> 10], [name |-> "security", weight |-> 0] >>,
    << [name |-> "political", weight |-> 0], [name |-> "security", weight |-> 0] >>,
    <<>> }

ScoreConfigs == { [BaseConfig EXCEPT !.weights = w] : w \in ScoreWeights }

\* the snapshot an earlier run at time t left of target, its history then
\* empty, for the dimension values vals
PriorSnapshot(target, t, vals) ==
  LET sub_scores == [i \in DOMAIN config.weights |->
                       [name |-> config.weights[i].name, value |-> vals[i],
                        delta_7d |-> <<0, 1>>, delta_30d |-> <<0, 1>>,
                        delta_90d |-> <<0, 1>>, drivers |-> <<>>]]
  IN [assessment_id |-> "assess_" \o target \o "_" \o IsoFormat(t),
      target |-> target,
      overall_score |-> _calculate_overall_score(sub_scores),
      sub_scores |-> sub_scores,
      generated_at |-> t]

\* dimension values of an earlier run: the baseline (no event), and those
\* of a run that scored events
AtBaseline == [i \in 1..2 |-> Baseline]
Lowered == <<62800, 55600>>

\* the logs earlier runs may have left
PriorLogs ==
  { <<>>,
    << PriorSnapshot("Country A", ScoreNow - 100 * Day, AtBaseline),
       PriorSnapshot("Country A", ScoreNow - 7 * Day, Lowered) >>,
    << PriorSnapshot("Nigeria", ScoreNow - 100 * Day, Lowered),
       PriorSnapshot("Country A", ScoreNow - 40 * Day, AtBaseline),
       PriorSnapshot("Country A", ScoreNow - 20 * Day, Lowered) >> }

InitScore ==
  /\ config \in ScoreConfigs
  /\ now = ScoreNow
  /\ historical \in PriorLogs
  /\ sources = <<>>
  /\ clusters = <<>>
  /\ cluster = <<>>
  /\ extracted = <<>>
  /\ events = <<>>
  /\ extractLog = {}
  /\ \E n \in 0..MaxScoreEvents : \E kcs \in [1..n -> ScoreEventKinds] :
       scoreIn = [i \in 1..n |-> ScoreEvent(i, kcs[i])]
  /\ assessment = NoAssessment
  /\ assessments = <<>>
  /\ cursor = 1
  /\ run = 1
  /\ pc = "scoring"

\* step 5 of run_full_pipeline: calculate_assessment(country, country_events)
CalculateAssessment ==
  /\ pc = "scoring"
  /\ \E target \in Targets : assessment' = calculate_assessment(target, scoreIn)
  /\ pc' = "assessed"
  /\ UNCHANGED <<config, now, sources, clusters, cluster, extracted, events,
                 extractLog, scoreIn, assessments, historical, cursor, run>>

\* step 5 of run_full_pipeline: save_assessment(assessment)
SaveAssessment ==
  /\ pc = "assessed"
  /\ assessments' = Append(SelectSeq(assessments,
                             LAMBDA row : row.assessment_id # assessment.assessment_id),
                           AssessmentRow(assessment))
  /\ historical' = save_assessment_historical(historical, assessment)
  /\ pc' = "saved"
  /\ UNCHANGED <<config, now, sources, clusters, cluster, extracted, events,
                 extractLog, scoreIn, assessment, cursor, run>>

NextScore == CalculateAssessment \/ SaveAssessment

SpecScore == InitScore /\ [][NextScore]_vars

-----------------------------------------------------------------------------
(* The specification of repeated scoring: step 5 of a pipeline run         *)
(* assesses a target and saves the assessment, and later runs meet the     *)
(* history the earlier ones left.                                          *)

\* the time that passes before a target is assessed: an hour, a week,
\* more than the history window
TrendSteps == {1, 7 * Day, 100 * Day}

\* the events of a target in a run: none, or one
TrendEvents == {<<>>} \cup { <<ScoreEvent(1, kc)>> : kc \in ScoreEventKinds }

InitTrend ==
  /\ config = BaseConfig
  /\ now = ScoreNow
  /\ historical = <<>>
  /\ sources = <<>>
  /\ clusters = <<>>
  /\ cluster = <<>>
  /\ extracted = <<>>
  /\ events = <<>>
  /\ extractLog = {}
  /\ scoreIn = <<>>
  /\ assessment = NoAssessment
  /\ assessments = <<>>
  /\ cursor = 1
  /\ run = 0
  /\ pc = "idle"

\* step 5 of run_full_pipeline reaches a monitored country: its events
\* are selected
SelectEvents ==
  /\ pc \in {"idle", "saved"}
  /\ run < MaxRuns
  /\ \E step \in TrendSteps : now' = now + step
  /\ scoreIn' \in TrendEvents
  /\ run' = run + 1
  /\ pc' = "scoring"
  /\ UNCHANGED <<config, sources, clusters, cluster, extracted, events, extractLog,
                 assessment, assessments, historical, cursor>>

NextTrend == SelectEvents \/ CalculateAssessment \/ SaveAssessment

SpecTrend == InitTrend /\ [][NextTrend]_vars

-----------------------------------------------------------------------------
(* The specification of the driver lists: event lists long enough for the  *)
(* cuts at five and at three are scored on an empty store.                 *)

InitDrivers ==
  /\ config = BaseConfig
  /\ now = ScoreNow
  /\ historical = <<>>
  /\ sources = <<>>
  /\ clusters = <<>>
  /\ cluster = <<>>
  /\ extracted = <<>>
  /\ events = <<>>
  /\ extractLog = {}
  /\ \E n \in 0..MaxDriverEvents : \E kcs \in [1..n -> ScoreEventKinds] :
       scoreIn = [i \in 1..n |-> ScoreEvent(i, kcs[i])]
  /\ assessment = NoAssessment
  /\ assessments = <<>>
  /\ cursor = 1
  /\ run = 1
  /\ pc = "scoring"

NextDrivers == CalculateAssessment \/ SaveAssessment

SpecDrivers == InitDrivers /\ [][NextDrivers]_vars

-----------------------------------------------------------------------------
(* The specification of the window of the delta lookups: the logs hold     *)
(* snapshots on both sides of the 90 days before the assessment.           *)

WindowLogs ==
  PriorLogs \cup
  { << PriorSnapshot("Country A", ScoreNow - HistoryDays * Day, Lowered) >>,
    << PriorSnapshot("Country A", ScoreNow - HistoryDays * Day - 1, Lowered) >>,
    << PriorSnapshot("Country A", ScoreNow - HistoryDays * Day - 1, Lowered),
       PriorSnapshot("Country A", ScoreNow - HistoryDays * Day, AtBaseline) >>,
    << PriorSnapshot("Country A", ScoreNow - 100 * Day, Lowered),
       PriorSnapshot("Nigeria", ScoreNow - 7 * Day, AtBaseline) >> }

InitWindow ==
  /\ config = BaseConfig
  /\ now = ScoreNow
  /\ historical \in WindowLogs
  /\ sources = <<>>
  /\ clusters = <<>>
  /\ cluster = <<>>
  /\ extracted = <<>>
  /\ events = <<>>
  /\ extractLog = {}
  /\ scoreIn \in TrendEvents
  /\ assessment = NoAssessment
  /\ assessments = <<>>
  /\ cursor = 1
  /\ run = 1
  /\ pc = "scoring"

NextWindow == CalculateAssessment \/ SaveAssessment

SpecWindow == InitWindow /\ [][NextWindow]_vars

-----------------------------------------------------------------------------
(* Step 5 of run_full_pipeline over the monitored countries, run after     *)
(* run.  scoreIn holds all_events of the run, cursor the place of the loop *)
(* in monitored_countries, run the number of runs started.                 *)

RunsConfig == [BaseConfig EXCEPT !.monitored_countries = <<"Country A", "Nigeria">>]

\* all_events of a run: none, events of one country, events of both
RunEvents ==
  { <<>>,
    << ScoreEvent(1, <<"armed_conflict", 8>>) >>,
    << [ScoreEvent(1, <<"election", 5>>) EXCEPT !.location = "Nigeria"] >>,
    << ScoreEvent(1, <<"election", 5>>),
       [ScoreEvent(2, <<"armed_conflict", 8>>) EXCEPT !.location = "Nigeria"] >> }

\* the time from one run to the next: an hour, a week
RunSteps == {1, 7 * Day}

\* [e for e in all_events if country.lower() in e.location.lower()]
CountryEvents(country, all_events) ==
  SelectSeq(all_events, LAMBDA e : Contains(Lower(e.location), Lower(country)))

InitRuns ==
  /\ config = RunsConfig
  /\ now = ScoreNow
  /\ historical = <<>>
  /\ sources = <<>>
  /\ clusters = <<>>
  /\ cluster = <<>>
  /\ extracted = <<>>
  /\ events = <<>>
  /\ extractLog = {}
  /\ scoreIn = <<>>
  /\ assessment = NoAssessment
  /\ assessments = <<>>
  /\ cursor = 1
  /\ run = 0
  /\ pc = "idle"

\* a run reaches step 5 with the events it extracted
StartRun ==
  /\ pc \in {"idle", "done"}
  /\ run < MaxRuns
  /\ \E step \in RunSteps : now' = now + step
  /\ scoreIn' \in RunEvents
  /\ run' = run + 1
  /\ cursor' = 1
  /\ pc' = "scoring"
  /\ UNCHANGED <<config, sources, clusters, cluster, extracted, events, extractLog,
                 assessment, assessments, historical>>

\* if country_events or True: taken for every country
\* assessment = self.scoring_engine.calculate_assessment(country, country_events)
AssessCountry ==
  /\ pc = "scoring"
  /\ assessment' = calculate_assessment(config.monitored_countries[cursor],
                                        CountryEvents(config.monitored_countries[cursor],
                                                      scoreIn))
  /\ pc' = "assessed"
  /\ UNCHANGED <<config, now, sources, clusters, cluster, extracted, events, extractLog,
                 scoreIn, assessments, historical, cursor, run>>

\* self.storage.save_assessment(assessment), and the loop moves on
SaveCountry ==
  /\ pc = "assessed"
  /\ assessments' = Append(SelectSeq(assessments,
                             LAMBDA row : row.assessment_id # assessment.assessment_id),
                           AssessmentRow(assessment))
  /\ historical' = save_assessment_historical(historical, assessment)
  /\ cursor' = cursor + 1
  /\ pc' = IF cursor = Len(config.monitored_countries) THEN "done" ELSE "scoring"
  /\ UNCHANGED <<config, now, sources, clusters, cluster, extracted, events, extractLog,
                 scoreIn, assessment, run>>

NextRuns == StartRun \/ AssessCountry \/ SaveCountry

SpecRuns == InitRuns /\ [][NextRuns]_vars

-----------------------------------------------------------------------------
(* Step 5 of several pipeline runs at once on one store.  No lock is held  *)
(* between the calls of Storage, each of which is one transaction: the     *)
(* steps of a run are its reads of the historical log (one for each        *)
(* dimension, one for the overall deltas) and its save.  pc, cursor,       *)
(* scoreIn and assessment are kept per run; run keeps, per run, the length *)
(* of the log at each of its reads and the place of its row.  The runs     *)
(* overlap within one hour of the clock.                                   *)

OverlapRuns == 1..MaxOverlap

\* the country of the loop of step 5
OverlapTarget == config.monitored_countries[1]

\* the events of the country a run extracted: none, a conflict, an election
OverlapEvents ==
  { <<>>, <<ScoreEvent(1, <<"armed_conflict", 8>>)>>, <<ScoreEvent(1, <<"election", 5>>)>> }

InitOverlap ==
  /\ config = BaseConfig
  /\ now = ScoreNow
  /\ historical \in PriorLogs
  /\ sources = <<>>
  /\ clusters = <<>>
  /\ cluster = <<>>
  /\ extracted = <<>>
  /\ events = <<>>
  /\ extractLog = {}
  /\ scoreIn \in [OverlapRuns -> OverlapEvents]
  /\ assessment = [r \in OverlapRuns |-> [target |-> OverlapTarget, sub_scores |-> <<>>]]
  /\ assessments = <<>>
  /\ cursor = [r \in OverlapRuns |-> 1]
  /\ run = [r \in OverlapRuns |-> [reads |-> <<>>, saved |-> 0]]
  /\ pc = [r \in OverlapRuns |-> "sub_scores"]

\* the read a step of run r makes
ReadBy(r) == [run EXCEPT ![r].reads = Append(@, Len(historical))]

\* _calculate_sub_scores, one dimension: its value, its deltas from
\* get_historical_assessments, its drivers
SubScoreStep(r) ==
  /\ pc[r] = "sub_scores"
  /\ assessment' = [assessment EXCEPT ![r].sub_scores =
                      Append(@, _calculate_sub_scores(OverlapTarget,
                                                      ValidEvents(scoreIn[r]))[cursor[r]])]
  /\ cursor' = [cursor EXCEPT ![r] = @ + 1]
  /\ pc' = [pc EXCEPT ![r] = IF cursor[r] = Len(config.weights) THEN "deltas" ELSE "sub_scores"]
  /\ run' = ReadBy(r)
  /\ UNCHANGED <<config, now, sources, clusters, cluster, extracted, events,
                 extractLog, scoreIn, assessments, historical>>

\* the overall score, _calculate_deltas from get_historical_assessments,
\* and the Assessment
DeltasStep(r) ==
  /\ pc[r] = "deltas"
  /\ assessment' = [assessment EXCEPT ![r] =
                      BuildAssessment(OverlapTarget, ValidEvents(scoreIn[r]), @.sub_scores)]
  /\ pc' = [pc EXCEPT ![r] = "assessed"]
  /\ run' = ReadBy(r)
  /\ UNCHANGED <<config, now, sources, clusters, cluster, extracted, events,
                 extractLog, scoreIn, assessments, historical, cursor>>

\* save_assessment(assessment)
SaveStep(r) ==
  /\ pc[r] = "assessed"
  /\ assessments' = Append(SelectSeq(assessments,
                             LAMBDA row : row.assessment_id # assessment[r].assessment_id),
                           AssessmentRow(assessment[r]))
  /\ historical' = save_assessment_historical(historical, assessment[r])
  /\ run' = [run EXCEPT ![r].saved = Len(historical')]
  /\ pc' = [pc EXCEPT ![r] = "saved"]
  /\ UNCHANGED <<config, now, sources, clusters, cluster, extracted, events,
                 extractLog, scoreIn, assessment, cursor>>

NextOverlap ==
  \/ \E r \in OverlapRuns : SubScoreStep(r)
  \/ \E r \in OverlapRuns : DeltasStep(r)
  \/ \E r \in OverlapRuns : SaveStep(r)

SpecOverlap == InitOverlap /\ [][NextOverlap]_vars

-----------------------------------------------------------------------------
(* Event correlation (src/src/correlation.py) over the events table.  The  *)
(* call of find_correlated_events keeps its event in cluster, its          *)
(* time_window_days in cursor and the list it returns in extracted.        *)

\* the order of two strings of isoformat(): they have one width, which the
\* digits of the hour count stand for
IsoLeq(a, b) == Len(a) < Len(b) \/ (Len(a) = Len(b) /\ ~StrLess(b, a))

\* the time of the event correlated, and the times around it
ProbeTime == 42 * Day
CorrelateOffsets == {0, 23, 24, 7 * Day - 1, 7 * Day}
WindowOffsets == {7 * Day + 1, 30 * Day, 30 * Day + 1, 0 - 30 * Day, 0 - (30 * Day + 1)}

\* datetime.fromisoformat(row['timestamp']): the digits, read from the left
RECURSIVE FromIso(_)
FromIso(s) ==
  IF s = "" THEN 0
  ELSE 10 * FromIso(SubSeq(s, 1, Len(s) - 1))
         + (CHOOSE d \in 0..9 : ToString(d) = CharAt(s, Len(s)))

\* Storage._row_to_event
_row_to_event(row) ==
  [row EXCEPT !.timestamp = FromIso(@), !.created_at = FromIso(@), !.updated_at = FromIso(@)]

\* [self._row_to_event(row) for row in cursor.fetchall()]
RowsToEvents(rows) == [i \in DOMAIN rows |-> _row_to_event(rows[i])]

\* ORDER BY timestamp DESC
RECURSIVE OrderByTimestampDesc(_)
OrderByTimestampDesc(rows) ==
  IF rows = <<>> THEN <<>>
  ELSE LET i == CHOOSE i \in DOMAIN rows :
                  /\ \A j \in DOMAIN rows : IsoLeq(rows[j].timestamp, rows[i].timestamp)
                  /\ \A j \in 1..(i - 1) : rows[j].timestamp # rows[i].timestamp
       IN <<rows[i]>> \o OrderByTimestampDesc(SubSeq(rows, 1, i - 1)
                                                \o SubSeq(rows, i + 1, Len(rows)))

\* a range that leaves its two ends out
get_events_by_time_range_Exclusive(start, end) ==
  LET inside == SelectSeq(events, LAMBDA row :
                  /\ IsoLeq(IsoFormat(start), row.timestamp) /\ IsoFormat(start) # row.timestamp
                  /\ IsoLeq(row.timestamp, IsoFormat(end)) /\ IsoFormat(end) # row.timestamp)
  IN RowsToEvents(OrderByTimestampDesc(inside))

\* SELECT * FROM events WHERE timestamp >= ? AND timestamp <= ?
get_events_by_time_range(start, end) ==
  LET inside == SelectSeq(events, LAMBDA row :
                  /\ IsoLeq(IsoFormat(start), row.timestamp)
                  /\ IsoLeq(row.timestamp, IsoFormat(end)))
  IN RowsToEvents(OrderByTimestampDesc(inside))

\* _calculate_correlation, in tenths
_calculate_correlation(event1, event2) ==
  LET same_location == IF Lower(event1.location) = Lower(event2.location) THEN 3 ELSE 0
      same_type == IF event1.event_type = event2.event_type THEN 3 ELSE 0
      time_diff == Abs(event1.timestamp - event2.timestamp)
      proximity == IF time_diff < Day THEN 2 ELSE IF time_diff < 7 * Day THEN 1 ELSE 0
      shared_entities == Range(event1.entities) \cap Range(event2.entities)
      shared == IF shared_entities # {} THEN 2 ELSE 0
  IN Min(same_location + same_type + proximity + shared, 10)

find_correlated_events(event, time_window_days) ==
  LET window_start == event.timestamp - time_window_days * Day
      window_end == event.timestamp + time_window_days * Day
      all_events == get_events_by_time_range(window_start, window_end)
  IN SelectSeq(all_events, LAMBDA other_event :
       /\ other_event.event_id # event.event_id
       /\ _calculate_correlation(event, other_event) > 5)

\* an event as extract_events leaves it, of a kind, at a location and a
\* time, with entities
CorrelateEvent(kind, location, timestamp, entities) ==
  [event_id |-> _generate_event_id(kind, location, timestamp, "src"),
   event_type |-> kind, timestamp |-> timestamp, location |-> location,
   entities |-> entities, summary |-> "", sources |-> <<>>,
   confidence |-> 7, confidence_label |-> ConfidenceLabel(7),
   impact_tags |-> {}, evidence_links |-> <<>>,
   created_at |-> timestamp, updated_at |-> timestamp]

\* the event correlated
Probe == CorrelateEvent("armed_conflict", "Country A", ProbeTime, <<"ent1", "ent2">>)

\* the events the table may hold: Probe is one of them; some share an
\* entity with it, some have its location in lower case, and some of its
\* kind and location lie at the ends of the windows
CorrelatePool ==
  { CorrelateEvent(kind, location, ProbeTime + dt, <<>>) :
      kind \in {"armed_conflict", "election"},
      location \in {"Country A", "Nigeria"},
      dt \in CorrelateOffsets }
  \cup { CorrelateEvent(kind, location, ProbeTime + dt, <<"ent2", "ent3">>) :
           kind \in {"armed_conflict", "election"},
           location \in {"Country A", "Nigeria"},
           dt \in {0, 24, 7 * Day} }
  \cup { CorrelateEvent(kind, "country a", ProbeTime + dt, <<>>) :
           kind \in {"armed_conflict", "election"}, dt \in {23, 7 * Day} }
  \cup { CorrelateEvent("armed_conflict", "Country A", ProbeTime + dt, <<>>) :
           dt \in WindowOffsets }

\* the windows asked for: a week, and the default
TimeWindowDays == {7, 30}

InitCorrelate ==
  /\ config = BaseConfig
  /\ now = 2 * ProbeTime
  /\ \E n \in 0..MaxStored : \E order \in [1..n -> CorrelatePool] :
       /\ \A i \in 1..(n - 1) : StrLess(order[i].event_id, order[i + 1].event_id)
       /\ events = SaveAll(<<>>, order)
  /\ sources = <<>>
  /\ clusters = <<>>
  /\ cluster = <<>>
  /\ extracted = <<>>
  /\ extractLog = {}
  /\ scoreIn = <<>>
  /\ assessment = NoAssessment
  /\ assessments = <<>>
  /\ historical = <<>>
  /\ cursor = 0
  /\ run = 1
  /\ pc = "idle"

\* correlator.find_correlated_events(event, time_window_days)
FindCorrelated ==
  /\ pc = "idle"
  /\ \E time_window_days \in TimeWindowDays :
       /\ cluster' = Probe
       /\ cursor' = time_window_days
       /\ extracted' = find_correlated_events(Probe, time_window_days)
  /\ pc' = "correlated"
  /\ UNCHANGED <<config, now, sources, clusters, events, extractLog, scoreIn,
                 assessment, assessments, historical, run>>

NextCorrelate == FindCorrelated

SpecCorrelate == InitCorrelate /\ [][NextCorrelate]_vars

-----------------------------------------------------------------------------
(* Pattern detection (src/src/correlation.py).  The list handed to         *)
(* detect_patterns is kept in extracted, the patterns it returns in        *)
(* clusters.                                                               *)

\* the locations in the order in which location_events first meets them
RECURSIVE LocationsOf(_)
LocationsOf(evs) ==
  IF evs = <<>> THEN <<>>
  ELSE LET before == LocationsOf(SubSeq(evs, 1, Len(evs) - 1))
           location == evs[Len(evs)].location
       IN IF location \in Range(before) THEN before ELSE Append(before, location)

\* the events of a location in the order given
SortedByTimestamp_Unsorted(loc_events) == loc_events

\* sorted(loc_events, key=lambda e: e.timestamp): equal timestamps keep
\* their order
RECURSIVE SortedByTimestamp(_)
SortedByTimestamp(loc_events) ==
  IF loc_events = <<>> THEN <<>>
  ELSE LET i == CHOOSE i \in DOMAIN loc_events :
                  /\ \A j \in DOMAIN loc_events :
                       loc_events[i].timestamp <= loc_events[j].timestamp
                  /\ \A j \in 1..(i - 1) : loc_events[j].timestamp > loc_events[i].timestamp
       IN <<loc_events[i]>>
            \o SortedByTimestamp(SubSeq(loc_events, 1, i - 1)
                                   \o SubSeq(loc_events, i + 1, Len(loc_events)))

\* (event2.timestamp - event1.timestamp).days
DaysBetween(event1, event2) == (event2.timestamp - event1.timestamp) \div Day

\* the escalations of one location
EscalationsAt(location, sorted_events) ==
  LET flagged == { i \in 1..(Len(sorted_events) - 1) :
                     /\ sorted_events[i].event_type = "civil_unrest"
                     /\ sorted_events[i + 1].event_type = "armed_conflict"
                     /\ DaysBetween(sorted_events[i], sorted_events[i + 1]) < 30 }
      at == SelectSeq([i \in 1..(Len(sorted_events) - 1) |-> i], LAMBDA i : i \in flagged)
  IN [k \in DOMAIN at |->
        [type |-> "escalation",
         location |-> location,
         sequence |-> <<"civil_unrest", "armed_conflict">>,
         timeframe_days |-> DaysBetween(sorted_events[at[k]], sorted_events[at[k] + 1]),
         events |-> <<sorted_events[at[k]].event_id, sorted_events[at[k] + 1].event_id>>]]

detect_patterns(evs) ==
  LET locations == LocationsOf(evs)
  IN Flatten([l \in DOMAIN locations |->
                EscalationsAt(locations[l],
                              SortedByTimestamp(SelectSeq(evs, LAMBDA e :
                                                            e.location = locations[l])))])

\* the events detect_patterns is given: unrest, conflicts and elections of
\* one country on four dates, and a few of another country
PatternPool ==
  { CorrelateEvent(kind, "Country A", t, <<>>) :
      kind \in {"civil_unrest", "armed_conflict", "election"},
      t \in {0, 10, 30 * Day - 1, 30 * Day} }
  \cup { CorrelateEvent("civil_unrest", "Nigeria", 0, <<>>),
         CorrelateEvent("election", "Nigeria", 10, <<>>),
         CorrelateEvent("armed_conflict", "Nigeria", 10, <<>>),
         CorrelateEvent("armed_conflict", "Nigeria", 30 * Day - 1, <<>>) }

InitPatterns ==
  /\ config = BaseConfig
  /\ now = 30 * Day
  /\ \E n \in 0..MaxPatternEvents : \E evs \in [1..n -> PatternPool] :
       /\ \A i, j \in 1..n : i # j => evs[i] # evs[j]
       /\ extracted = evs
  /\ sources = <<>>
  /\ clusters = <<>>
  /\ cluster = <<>>
  /\ events = <<>>
  /\ extractLog = {}
  /\ scoreIn = <<>>
  /\ assessment = NoAssessment
  /\ assessments = <<>>
  /\ historical = <<>>
  /\ cursor = 1
  /\ run = 1
  /\ pc = "idle"

\* correlator.detect_patterns(events)
DetectPatterns ==
  /\ pc = "idle"
  /\ clusters' = detect_patterns(extracted)
  /\ pc' = "patterns"
  /\ UNCHANGED <<config, now, sources, cluster, extracted, events, extractLog, scoreIn,
                 assessment, assessments, historical, cursor, run>>

NextPatterns == DetectPatterns

SpecPatterns == InitPatterns /\ [][NextPatterns]_vars

-----------------------------------------------------------------------------
(* The specification of steps 3 and 4 of one pipeline run: a batch is      *)
(* clustered, then every cluster is handed to extract_events and the       *)
(* events returned are saved.                                              *)

InitPipeline ==
  /\ config \in ClusterConfigs
  /\ \E n \in 0..MaxPipelineBatch : \E ix \in PoolPicks(n) :
       \E pub \in [1..n -> PublishedTimes] : sources = Batch(ix, pub)
  /\ now = RetrievedAt
  /\ clusters = <<>>
  /\ cluster = <<>>
  /\ extracted = <<>>
  /\ events = <<>>
  /\ extractLog = {}
  /\ scoreIn = <<>>
  /\ assessment = NoAssessment
  /\ assessments = <<>>
  /\ historical = <<>>
  /\ cursor = 1
  /\ run = 1
  /\ pc = "start"

NextPipeline == ClusterSources \/ ExtractEvents \/ SaveEvents

SpecPipeline == InitPipeline /\ [][NextPipeline]_vars

-----------------------------------------------------------------------------
(* Claims about cluster_sources, checked under SpecCluster.                *)

IdsOf(s) == { s[i].source_id : i \in DOMAIN s }
UniqueIds(s) == \A i, j \in DOMAIN s : s[i].source_id = s[j].source_id => i = j

\* the index of the cluster that holds source id
ClusterOfId(id) == CHOOSE k \in DOMAIN clusters : id \in IdsOf(clusters[k])

TimeApart(a, b) == Abs(EffectiveTime(a) - EffectiveTime(b))

C2_Original ==
  (pc = "clustered" /\ UniqueIds(sources)) =>
    \A x, y \in Range(sources) :
      (TitleSimilar(x, y) /\ TimeApart(x, y) < config.time_window_hours)
        => ClusterOfId(x.source_id) = ClusterOfId(y.source_id)

\* C2 amended: when one of two such items is the anchor of a cluster, the
\* other is in that cluster or in an earlier one, so that the two are never
\* the anchors of two different clusters.
C2_AnchorAdmits ==
  pc = "clustered" =>
    \A k \in DOMAIN clusters : \A y \in Range(sources) :
      (TitleSimilar(clusters[k][1], y)
         /\ TimeApart(clusters[k][1], y) < config.time_window_hours)
        => /\ y.source_id \in IdsOf(Flatten(clusters))
           /\ ClusterOfId(y.source_id) <= k

\* an item similar by title to a later anchor, and less than the window
\* from it, stayed in the cluster of the earlier anchor that admitted it
C2_Witness ==
  /\ pc = "clustered" /\ UniqueIds(sources)
  /\ \E k \in DOMAIN clusters : \E y \in Range(sources) :
       /\ TitleSimilar(clusters[k][1], y)
       /\ TimeApart(clusters[k][1], y) < config.time_window_hours
       /\ ClusterOfId(y.source_id) < k

-----------------------------------------------------------------------------
(* Claims about extract_events and the events table.                       *)

\* the event ids of a result of extract_events
EventIds(evs) == { evs[i].event_id : i \in DOMAIN evs }

\* the kinds of the table with at least one pattern found in text
MatchingKinds(text) == { k \in DOMAIN EventPatterns : KindMatches(k, text) }

\* the matching kinds of every pool text, computed once
MatchingOf ==
  [tc \in { <<p.title, p.content>> : p \in AllPoolItems } |->
     MatchingKinds(Lower(TitleAndContent(tc[1], tc[2])))]

\* the monitored countries the title and body of a source mention
MonitoredMentioned(s) ==
  { c \in Range(config.monitored_countries) :
      Mentions(TitleAndContent(s.title, s.content), c) }

\* C4: extraction is idempotent in the identifier.  Two calls of
\* extract_events on the same cluster, whenever they are made, return
\* events with the same event_id; and two events with the same kind,
\* location, timestamp and anchor source id have the same event_id,
\* whatever else differs between their clusters.
C4_SameId ==
  \A a, b \in extractLog :
    /\ a.cluster = b.cluster => EventIds(a.events) = EventIds(b.events)
    /\ (/\ a.events # <<>>
        /\ b.events # <<>>
        /\ a.events[1].event_type = b.events[1].event_type
        /\ a.events[1].location = b.events[1].location
        /\ a.events[1].timestamp = b.events[1].timestamp
        /\ a.cluster[1].source_id = b.cluster[1].source_id)
         => a.events[1].event_id = b.events[1].event_id

\* the same cluster was extracted at two different times, with an event
C4_Witness ==
  \E a, b \in extractLog :
    /\ a.cluster = b.cluster
    /\ a.at # b.at
    /\ a.events # <<>>
    /\ a.events[1].created_at # b.events[1].created_at

\* C5: the events table never holds two rows with one event_id.  Once the
\* events of a cluster are saved the table holds exactly one row for each
\* event_id submitted so far, so a resubmission leaves the number of rows
\* unchanged, and the row of the event just saved is the event just saved.
C5_OneRowPerId ==
  /\ \A i, j \in DOMAIN events : events[i].event_id = events[j].event_id => i = j
  /\ pc # "extracted" =>
       /\ { events[i].event_id : i \in DOMAIN events }
            = UNION { EventIds(e.events) : e \in extractLog }
       /\ Len(events) = Cardinality(UNION { EventIds(e.events) : e \in extractLog })
  /\ (pc = "clustered" /\ cursor > 1 /\ extracted # <<>>) =>
       \E i \in DOMAIN events : events[i] = EventRow(extracted[1])

\* an event was saved under the id of a different event saved before, and
\* the table holds the one row
C5_Witness ==
  /\ pc = "clustered"
  /\ cursor > 1
  /\ Len(events) = 1
  /\ \E a, b \in extractLog :
       /\ a.events # <<>>
       /\ b.events # <<>>
       /\ a.events[1].event_id = b.events[1].event_id
       /\ a.events[1] # b.events[1]

\* C6: the classifier returns the kind declared first among the kinds with
\* at least one matching pattern, whatever matches of later kinds there
\* are, and no kind when no kind matches; the event extracted carries that
\* kind.  The text with "protest", "bombing" and "insurgent" is an armed
\* conflict, the first of the three kinds it matches.
C6_FirstMatchWins ==
  pc = "extracted" =>
    LET hits == MatchingOf[<<cluster[1].title, cluster[1].content>>]
        kind == _detect_event_type(cluster[1])
    IN /\ hits = {} <=> kind = None
       /\ hits # {} =>
            \E k \in hits : /\ \A m \in hits : k <= m
                            /\ kind = Some(EventPatterns[k].event_type)
       /\ extracted # <<>> => kind = Some(extracted[1].event_type)
       /\ (cluster[1].source_id = ExtractPool[2].source_id /\ extracted # <<>>)
            => extracted[1].event_type = "armed_conflict"

\* an event was extracted from a text that matches three kinds, two of
\* them declared after the kind returned
C6_Witness ==
  /\ pc = "extracted"
  /\ extracted # <<>>
  /\ LET hits == MatchingOf[<<cluster[1].title, cluster[1].content>>]
     IN /\ Cardinality(hits) >= 3
        /\ \E k \in hits : /\ EventPatterns[k].event_type = extracted[1].event_type
                           /\ \A m \in hits \ {k} : k < m /\ Len(EventPatterns[m].patterns) > 0

\* C7: extract_events returns no event exactly when no kind matches the
\* anchor's text or the text mentions no monitored country, and exactly
\* one event otherwise.
C7_Returned ==
  pc # "clustered" \/ cursor > 1 =>
    /\ Len(extracted) <= 1
    /\ extracted = <<>> <=>
         \/ MatchingOf[<<cluster[1].title, cluster[1].content>>] = {}
         \/ MonitoredMentioned(cluster[1]) = {}

\* C7: the call of extract_events writes nothing to the table, and saving
\* the result of a rejected cluster leaves the table as it was.
C7_RejectedWritesNothing ==
  /\ pc = "clustered" => events' = events
  /\ (pc = "extracted" /\ extracted = <<>>) => events' = events
  /\ (pc = "extracted" /\ extracted # <<>>) =>
       \E i \in DOMAIN events' : events'[i].event_id = extracted[1].event_id

\* C7: zero events exactly for the unclassified or unlocated cluster, one
\* event otherwise, and a rejected cluster changes nothing in the store.
C7_ZeroOrOne == [](C7_Returned) /\ [][C7_RejectedWritesNothing]_vars

\* a cluster whose text matches a kind but mentions no monitored country
\* was rejected and passed the saving step, the store holding the event
\* of an earlier run
C7_Witness ==
  /\ pc = "clustered"
  /\ cursor > 1
  /\ extracted = <<>>
  /\ MatchingOf[<<cluster[1].title, cluster[1].content>>] # {}
  /\ Len(events) = 1

\* the confidence of a cluster by the stated formula, in tenths
StatedConfidence(srcs) ==
  LET names == { srcs[i].source_name : i \in DOMAIN srcs }
      base == CASE srcs[1].tier = "A" -> 9
                [] srcs[1].tier = "B" -> 7
                [] srcs[1].tier = "C" -> 5
                [] srcs[1].tier = "D" -> 3
      bonus == (IF Cardinality(names) >= 2 THEN 1 ELSE 0)
                 + (IF Cardinality(names) >= 3 THEN 1 ELSE 0)
      capped == Min(10, base + bonus)
  IN IF \A i \in DOMAIN srcs : srcs[i].tier = "D" THEN Min(capped, 3) ELSE capped

\* C8: the confidence of the event of a cluster is min(1.0, base of the
\* anchor's tier + 0.1 for two distinct source names + 0.1 for three),
\* capped at 0.3 when every item is tier D.  A single tier-B item gives a
\* value in [0.6, 0.8]; a second tier-B item of another source name gives
\* strictly more; an item repeating a source name of the cluster adds no
\* bonus; an all-tier-D cluster never exceeds 0.3.
C8_Confidence ==
  (pc = "extracted" /\ extracted # <<>>) =>
    LET c == extracted[1].confidence
        names == { cluster[i].source_name : i \in DOMAIN cluster }
        allD(srcs) == \A i \in DOMAIN srcs : srcs[i].tier = "D"
    IN /\ c = StatedConfidence(cluster)
       /\ (Len(cluster) = 1 /\ cluster[1].tier = "B") =>
            /\ 6 <= c /\ c <= 8
            /\ \A nm \in SourceNames \ names :
                 _calculate_confidence(Append(cluster, Member(1, <<"B", nm>>))) > c
       /\ \A m \in MemberKinds :
            (m[2] \in names /\ (allD(cluster) => m[1] = "D")) =>
              _calculate_confidence(Append(cluster, Member(Len(cluster), m))) = c
       /\ allD(cluster) => c <= 3

\* an event was extracted from a cluster of three items of two source
\* names, one name repeated, with one bonus over the base of tier B
C8_Witness ==
  /\ pc = "extracted"
  /\ extracted # <<>>
  /\ Len(cluster) = 3
  /\ Cardinality({ cluster[i].source_name : i \in DOMAIN cluster }) = 2
  /\ cluster[1].tier = "B"
  /\ extracted[1].confidence = 8

\* C9: every event extracted has a confidence within [0, 1] and the label
\* of that confidence: High exactly from 0.7 up, Medium exactly from 0.4
\* up to but not including 0.7, Low below 0.4.
C9_LabelConsistent ==
  \A i \in DOMAIN extracted :
    LET c == extracted[i].confidence
        label == extracted[i].confidence_label
    IN /\ 0 <= c /\ c <= 10
       /\ label \in {"High", "Medium", "Low"}
       /\ label = "High" <=> c >= 7
       /\ label = "Medium" <=> (4 <= c /\ c < 7)
       /\ label = "Low" <=> c < 4

\* an event was extracted with a confidence of exactly 0.7, labelled High
C9_Witness ==
  /\ pc = "extracted"
  /\ extracted # <<>>
  /\ extracted[1].confidence = 7
  /\ extracted[1].confidence_label = "High"

-----------------------------------------------------------------------------
(* Claims about calculate_assessment, checked under SpecScore.             *)

\* the events of a list with at least the configured minimum confidence
Qualifying(evs) == { i \in DOMAIN evs : evs[i].confidence >= config.min_confidence }

\* severity_base(kind) and dimension_weight(kind, d) as configured, with
\* the defaults for what the configuration leaves out
StatedSeverity(kind) ==
  IF kind \in DOMAIN config.event_types THEN config.event_types[kind].severity_base ELSE 5

StatedWeight(kind, d) ==
  IF kind \in DOMAIN config.event_types
       /\ d \in DOMAIN config.event_types[kind].sub_score_weights
  THEN config.event_types[kind].sub_score_weights[d]
  ELSE 0

\* the sum over a set of events of severity * weight * confidence * 20
RECURSIVE StatedImpact(_, _, _)
StatedImpact(d, evs, idx) ==
  IF idx = {} THEN 0
  ELSE LET i == CHOOSE i \in idx : TRUE
       IN StatedSeverity(evs[i].event_type) * StatedWeight(evs[i].event_type, d)
            * evs[i].confidence * 20
          + StatedImpact(d, evs, idx \ {i})

\* C10: the value of every configured dimension d is 70 minus the sum,
\* over the events with at least the minimum confidence, of severity *
\* dimension weight * confidence * 20, kept within [0, 100]; with exactly
\* one qualifying event of positive severity and positive weight for d the
\* value is strictly below 70, as for an armed conflict of confidence 0.8
\* on the security dimension.
C10_DimensionValue ==
  pc = "assessed" =>
    /\ Len(assessment.sub_scores) = Len(config.weights)
    /\ \A k \in DOMAIN config.weights :
         LET d == config.weights[k].name
             value == assessment.sub_scores[k].value
             due == 70000 - StatedImpact(d, scoreIn, Qualifying(scoreIn))
         IN /\ assessment.sub_scores[k].name = d
            /\ value = IF due < 0 THEN 0 ELSE IF due > 100000 THEN 100000 ELSE due
            /\ (\E i \in Qualifying(scoreIn) :
                  /\ Qualifying(scoreIn) = {i}
                  /\ StatedSeverity(scoreIn[i].event_type) > 0
                  /\ StatedWeight(scoreIn[i].event_type, d) > 0)
                 => value < 70000
            /\ (/\ d = "security"
                /\ Len(scoreIn) = 1
                /\ scoreIn[1].event_type = "armed_conflict"
                /\ scoreIn[1].confidence = 8)
                 => value < 70000

\* one armed conflict of confidence 0.8, and an event below the minimum
\* confidence, were scored: security is at 70 - 0.9 * 1.0 * 0.8 * 20
C10_Witness ==
  /\ pc = "assessed"
  /\ Len(scoreIn) = 2
  /\ scoreIn[1].event_type = "armed_conflict" /\ scoreIn[1].confidence = 8
  /\ scoreIn[2].event_type = "armed_conflict" /\ scoreIn[2].confidence = 4
  /\ \E k \in DOMAIN assessment.sub_scores :
       /\ assessment.sub_scores[k].name = "security"
       /\ assessment.sub_scores[k].value = 55600

\* a fraction lies within [lo, hi]
RatWithin(r, lo, hi) == r[2] > 0 /\ lo * r[2] <= r[1] /\ r[1] <= hi * r[2]

QualifyingSeq(evs) ==
  SelectSeq(evs, LAMBDA e : e.confidence >= config.min_confidence)

\* C12: events below the minimum confidence have no effect: the scores,
\* the deltas, the drivers and the confidence of the assessment are those
\* of the assessment of the qualifying events alone, and when no event
\* qualifies every dimension value and the overall score are 70 and the
\* driver lists are empty.
C12_BelowMinimumIgnored ==
  pc = "assessed" =>
    LET alone == calculate_assessment(assessment.target, QualifyingSeq(scoreIn))
    IN /\ assessment = alone
       /\ \A i \in DOMAIN scoreIn :
            scoreIn[i].confidence < config.min_confidence =>
              /\ scoreIn[i].event_id \notin Range(assessment.drivers)
              /\ \A k \in DOMAIN assessment.sub_scores :
                   scoreIn[i].event_id \notin Range(assessment.sub_scores[k].drivers)
       /\ QualifyingSeq(scoreIn) = <<>> =>
            /\ \A k \in DOMAIN assessment.sub_scores :
                 /\ assessment.sub_scores[k].value = 70000
                 /\ assessment.sub_scores[k].drivers = <<>>
            /\ assessment.overall_score = <<70000, 1>>
            /\ assessment.drivers = <<>>

\* two armed conflicts below the minimum confidence, and nothing else,
\* were scored under weighted dimensions
C12_Witness ==
  /\ pc = "assessed"
  /\ Len(scoreIn) = 2
  /\ \A i \in DOMAIN scoreIn :
       scoreIn[i].event_type = "armed_conflict" /\ scoreIn[i].confidence = 4
  /\ Len(assessment.sub_scores) = 2
  /\ assessment.overall_score = <<70000, 1>>
  /\ assessment.drivers = <<>>

\* the sum of the configured dimension weights, in tenths
WeightSum == SumSeq([k \in DOMAIN config.weights |-> config.weights[k].weight])

\* the sum over the configured dimensions of value * weight
WeightedTotal(sub_scores) ==
  SumSeq([k \in DOMAIN config.weights |->
            sub_scores[k].value * config.weights[k].weight])

\* C13: the overall score is the mean of the dimension values weighted by
\* the configured dimension weights; when the configured weights sum to
\* zero, or no weight is configured at all, it is the 70 baseline.
C13_WeightedMean ==
  pc = "assessed" =>
    LET overall == assessment.overall_score
    IN /\ overall[2] > 0
       /\ WeightSum # 0 =>
            overall[1] * WeightSum = WeightedTotal(assessment.sub_scores) * overall[2]
       /\ WeightSum = 0 => overall = <<70000, 1>>

\* two dimensions are configured, both with weight zero, and an armed
\* conflict lowered both below 70: the overall score is the baseline
C13_Witness ==
  /\ pc = "assessed"
  /\ Len(config.weights) = 2
  /\ WeightSum = 0
  /\ \A k \in DOMAIN assessment.sub_scores : assessment.sub_scores[k].value < 70000
  /\ assessment.overall_score = <<70000, 1>>

\* the rows of the historical log that belong to a target
LogOf(target) == SelectSeq(historical, LAMBDA row : row.target = target)

\* the three deltas of an assessment or of a dimension
DeltasOf(r) == <<r.delta_7d, r.delta_30d, r.delta_90d>>

\* C14: an assessment computed while the historical log holds no snapshot
\* of its target has the three overall deltas, and the three deltas of
\* every dimension, equal to 0, whatever the events.
C14_FirstAssessmentNoDeltas ==
  (pc = "assessed" /\ LogOf(assessment.target) = <<>>) =>
    /\ DeltasOf(assessment) = <<(<<0, 1>>), (<<0, 1>>), (<<0, 1>>)>>
    /\ \A k \in DOMAIN assessment.sub_scores :
         DeltasOf(assessment.sub_scores[k]) = <<(<<0, 1>>), (<<0, 1>>), (<<0, 1>>)>>

\* the log holds snapshots of another target only, and the events lowered
\* the dimensions of this first assessment below the baseline
C14_Witness ==
  /\ pc = "assessed"
  /\ historical # <<>>
  /\ LogOf(assessment.target) = <<>>
  /\ Len(assessment.sub_scores) = 2
  /\ \A k \in DOMAIN assessment.sub_scores : assessment.sub_scores[k].value < 70000
  /\ DeltasOf(assessment) = <<(<<0, 1>>), (<<0, 1>>), (<<0, 1>>)>>

\* the distance of a snapshot of the log from now minus h days
Distance(i, h) == Abs(historical[i].generated_at - (now - h * Day))

\* among a set of snapshots of the log, those at the least distance from
\* now minus h days
Nearest(idx, h) == { i \in idx : \A j \in idx : Distance(i, h) <= Distance(j, h) }

\* the deltas are the current values minus the values of snapshot i
DeltaAgainst(p, i) ==
  /\ DeltasOf(assessment)[p]
       = RatSub(assessment.overall_score, historical[i].overall_score)
  /\ \A k \in DOMAIN assessment.sub_scores :
       DeltasOf(assessment.sub_scores[k])[p]
         = Rat(assessment.sub_scores[k].value - historical[i].sub_scores[k].value, 1)

\* the snapshots of the assessed target, and those of the last 90 days
TargetLog == { i \in DOMAIN historical : historical[i].target = assessment.target }
TargetWindow == { i \in TargetLog : historical[i].generated_at >= now - 90 * Day }

\* C15 as stated: with a non-empty log of the target, each of the deltas
\* for 7, 30 and 90 days is the current value minus the value of a
\* snapshot of the target's log nearest to now minus that many days.
C15_Original ==
  (pc = "assessed" /\ TargetLog # {}) =>
    \A p \in DOMAIN DeltaDays :
      \E i \in Nearest(TargetLog, DeltaDays[p]) : DeltaAgainst(p, i)

\* C15: only the snapshots the target's log holds from the last 90 days
\* are consulted. When there is one, each of the deltas for 7, 30 and 90
\* days is the current value minus the value of the one snapshot among
\* them nearest to now minus that many days, the earliest of two
\* equally near ones; when there is none, the deltas are 0.
C15_NearestInWindow ==
  pc = "assessed" =>
    \A p \in DOMAIN DeltaDays :
      IF TargetWindow = {}
      THEN /\ DeltasOf(assessment)[p] = <<0, 1>>
           /\ \A k \in DOMAIN assessment.sub_scores :
                DeltasOf(assessment.sub_scores[k])[p] = <<0, 1>>
      ELSE \E i \in Nearest(TargetWindow, DeltaDays[p]) :
             /\ \A j \in Nearest(TargetWindow, DeltaDays[p]) :
                  historical[i].generated_at <= historical[j].generated_at
             /\ DeltaAgainst(p, i)

\* the log holds a snapshot of the target from 100 days ago and one from
\* 7 days ago with lower values; the baseline was assessed, and the delta
\* for 90 days is taken against the snapshot of 7 days ago
C15_Witness ==
  /\ pc = "assessed"
  /\ \E i \in TargetLog \ TargetWindow : Nearest(TargetLog, 90) = {i}
  /\ TargetWindow # {}
  /\ Len(assessment.sub_scores) = 2
  /\ assessment.delta_90d # <<0, 1>>
  /\ \E i \in TargetWindow : DeltaAgainst(3, i)

\* the snapshot of the current assessment is in the historical log
Logged ==
  \E i \in DOMAIN historical : historical[i].assessment_id = assessment.assessment_id

C16_CalculateWritesNothing ==
  (pc = "scoring" /\ pc' = "assessed") =>
    historical' = historical /\ assessments' = assessments

\* save_assessment adds one row for the target to the end of the log and
\* leaves the others as they are
C16_SaveAppends ==
  (pc = "assessed" /\ pc' = "saved") =>
    /\ Len(historical') = Len(historical) + 1
    /\ SubSeq(historical', 1, Len(historical)) = historical
    /\ LET row == historical'[Len(historical')]
       IN /\ row.target = assessment.target
          /\ row.generated_at = assessment.generated_at
          /\ row.overall_score = assessment.overall_score
          /\ row.sub_scores = assessment.sub_scores

\* the snapshots saved of the target are in its log when it is assessed
\* again, and the deltas are taken against the one of the last 90 days
C16_Seen ==
  pc = "assessed" =>
    /\ \A k \in DOMAIN assessments :
         assessments[k].target = assessment.target =>
           \E i \in TargetLog : historical[i].assessment_id = assessments[k].assessment_id
    /\ \A i \in TargetWindow :
         TargetWindow = {i} => \A p \in DOMAIN DeltaDays : DeltaAgainst(p, i)

TwinBatch ==
  /\ Len(sources) = 2
  /\ sources[1].title = sources[2].title
  /\ Contains(Lower(sources[1].title), "election")
  /\ \E c \in Range(config.monitored_countries) :
       Contains(Lower(sources[1].title), Lower(c))
  /\ sources[1].source_name # sources[2].source_name
  /\ sources[1].tier = "B" /\ sources[2].tier = "B"
  /\ TimeApart(sources[1], sources[2]) = 0

\* every cluster has been handed to extract_events and its events saved
PipelineDone == pc = "clustered" /\ cursor > Len(clusters)

\* C17: end to end, a batch of two items with the same title that names
\* an election and a monitored country, published minutes apart by two
\* source names, both of tier B, gives one cluster of the two items and
\* one event, an election in that country, whose confidence is above that
\* of a tier-B item alone.
C17_EndToEnd ==
  TwinBatch =>
    /\ pc # "start" =>
         /\ Len(clusters) = 1
         /\ Len(clusters[1]) = 2
         /\ Range(clusters[1]) = Range(sources)
    /\ pc = "extracted" =>
         /\ Len(extracted) = 1
         /\ extracted[1].event_type = "election"
         /\ extracted[1].location \in Range(config.monitored_countries)
         /\ Contains(Lower(sources[1].title), Lower(extracted[1].location))
         /\ extracted[1].confidence > _calculate_confidence(<<sources[1]>>)
         /\ extracted[1].confidence > TierWeight("B")
    /\ PipelineDone =>
         /\ Len(events) = 1
         /\ events[1].event_type = "election"
         /\ events[1].confidence > TierWeight("B")
         /\ Cardinality(extractLog) = 1

\* the two items were clustered, the cluster was extracted and its one
\* event, of confidence 0.8, is stored
C17_Witness ==
  /\ TwinBatch
  /\ PipelineDone
  /\ Len(clusters) = 1
  /\ Len(events) = 1
  /\ events[1].location = "Country A"
  /\ events[1].confidence = 8

\* C18: in every cluster the first element, the anchor, has the smallest
\* effective time of the members, and the effective time of every member
\* is within the configured window of the anchor's.
C18_AnchorEarliest ==
  pc = "clustered" =>
    \A k \in DOMAIN clusters : \A i \in DOMAIN clusters[k] :
      /\ EffectiveTime(clusters[k][1]) <= EffectiveTime(clusters[k][i])
      /\ EffectiveTime(clusters[k][i]) - EffectiveTime(clusters[k][1])
           <= config.time_window_hours

\* the batch gave the later item first: the cluster of the two starts
\* with the earlier one, and a third item further away is not in it
C18_Witness ==
  /\ pc = "clustered"
  /\ Len(sources) = 3
  /\ EffectiveTime(sources[1]) > EffectiveTime(sources[2])
  /\ \E k \in DOMAIN clusters :
       /\ Len(clusters[k]) = 2
       /\ clusters[k][1] = sources[2]
       /\ clusters[k][2] = sources[1]
       /\ TimeApart(clusters[k][1], sources[3]) > config.time_window_hours

\* the positions of the monitored list whose name occurs, whatever the
\* case, in the title and body of an item
MentionedAt(s) ==
  { i \in DOMAIN config.monitored_countries :
      Mentions(TitleAndContent(s.title, s.content), config.monitored_countries[i]) }

\* C19: the location of a cluster is the first name of the monitored
\* list, in the order of the list, that occurs in the title and body of
\* the anchor whatever the case; when several names occur, one of them
\* inside another included, the order of the list alone decides; when
\* none occurs the cluster is rejected.
C19_ListOrderDecides ==
  pc = "extracted" =>
    LET anchor == cluster[1]
        at == MentionedAt(anchor)
        first == CHOOSE i \in at : \A j \in at : i <= j
    IN /\ at = {} => _extract_location(anchor) = None /\ extracted = <<>>
       /\ at # {} =>
            /\ _extract_location(anchor) = Some(config.monitored_countries[first])
            /\ extracted # <<>> =>
                 extracted[1].location = config.monitored_countries[first]
            /\ MatchingOf[<<anchor.title, anchor.content>>] # {} => extracted # <<>>

\* the anchor names Nigeria, which holds the name Niger, and the list has
\* Niger before Nigeria: the event is located at Niger
C19_Witness ==
  /\ pc = "extracted"
  /\ \E i, j \in MentionedAt(cluster[1]) :
       /\ i < j
       /\ config.monitored_countries[i] = "Niger"
       /\ config.monitored_countries[j] = "Nigeria"
  /\ extracted # <<>>
  /\ extracted[1].location = "Niger"

\* the dimension values and the overall score of the event list with one
\* more event of kind and confidence kc at its end
WithOneMore(kc) ==
  LET valid_events == ValidEvents(Append(scoreIn, ScoreEvent(Len(scoreIn) + 1, kc)))
      sub_scores == [i \in DOMAIN config.weights |->
                       [name |-> config.weights[i].name,
                        value |-> ScoreValue(config.weights[i].name, valid_events)]]
  IN [sub_scores |-> sub_scores, overall_score |-> _calculate_overall_score(sub_scores)]

\* C20: impacts only take from a score.  No dimension value and no
\* overall score is above the 70 baseline, and one more event, of any
\* kind and any confidence, never makes a dimension value or the overall
\* score greater (the longer list being one of at most MaxScoreEvents
\* events).
C20_Subtractive ==
  pc = "assessed" =>
    /\ \A k \in DOMAIN assessment.sub_scores : assessment.sub_scores[k].value <= 70000
    /\ RatLeq(assessment.overall_score, <<70000, 1>>)
    /\ Len(scoreIn) < MaxScoreEvents => \A kc \in ScoreEventKinds :
         LET more == WithOneMore(kc)
         IN /\ \A k \in DOMAIN assessment.sub_scores :
                 more.sub_scores[k].value <= assessment.sub_scores[k].value
            /\ RatLeq(more.overall_score, assessment.overall_score)

\* events lowered the overall score below 70, and one more armed conflict
\* would lower it further while one more event below the minimum
\* confidence would leave it as it is
C20_Witness ==
  /\ pc = "assessed"
  /\ Len(scoreIn) >= 1
  /\ Len(scoreIn) < MaxScoreEvents
  /\ ~RatLeq(<<70000, 1>>, assessment.overall_score)
  /\ ~RatLeq(assessment.overall_score, WithOneMore(<<"armed_conflict", 8>>).overall_score)
  /\ WithOneMore(<<"armed_conflict", 4>>).overall_score = assessment.overall_score

\* the rows of a log that belong to a target
RowsOf(rows, target) == SelectSeq(rows, LAMBDA row : row.target = target)

\* C21: the historical log is append-only and keyed by target.  A step
\* that changes the log is a save_assessment: it adds exactly one row,
\* for the target assessed, after the rows there were, and leaves the log
\* of every other target as it was; no step changes or removes a row, so
\* no target's log ever gets shorter.
C21_AppendOnly ==
  [][ /\ \A i \in DOMAIN historical :
           i \in DOMAIN historical' /\ historical'[i] = historical[i]
      /\ \A t \in Targets : Len(RowsOf(historical', t)) >= Len(RowsOf(historical, t))
      /\ historical' # historical =>
           /\ pc = "assessed" /\ pc' = "saved"
           /\ Len(historical') = Len(historical) + 1
           /\ historical'[Len(historical')].target = assessment.target
           /\ Len(RowsOf(historical', assessment.target))
                = Len(RowsOf(historical, assessment.target)) + 1
           /\ \A t \in Targets \ {assessment.target} :
                RowsOf(historical', t) = RowsOf(historical, t) ]_vars

\* the second save, more than 90 days after the first and for the other
\* target, has been made: both rows are in the log
C21_Witness ==
  /\ pc = "saved"
  /\ Len(historical) = 2
  /\ historical[1].target # historical[2].target
  /\ historical[2].target = assessment.target
  /\ historical[2].generated_at - historical[1].generated_at > 90 * Day

\* the position in the event list of the event with an id
EventAt(id) == CHOOSE i \in DOMAIN scoreIn : scoreIn[i].event_id = id

\* severity * confidence, and severity * dimension weight * confidence,
\* of the event at a position
OverallScoreOf(i) == StatedSeverity(scoreIn[i].event_type) * scoreIn[i].confidence
DimensionScoreOf(d, i) ==
  StatedSeverity(scoreIn[i].event_type) * StatedWeight(scoreIn[i].event_type, d)
    * scoreIn[i].confidence

\* a driver list of at most limit ids, all of events at the positions
\* cand, in non-increasing order of score, none of cand left out with a
\* score above that of a listed one, and full when cand has enough events
RankedFrom(drivers, limit, cand, score(_)) ==
  /\ Len(drivers) = Min(limit, Cardinality(cand))
  /\ Len(drivers) <= limit
  /\ \A k \in DOMAIN drivers : \E i \in cand : scoreIn[i].event_id = drivers[k]
  /\ \A k, l \in DOMAIN drivers : k # l => drivers[k] # drivers[l]
  /\ \A k, l \in DOMAIN drivers : k < l => score(EventAt(drivers[k])) >= score(EventAt(drivers[l]))
  /\ \A i \in cand : scoreIn[i].event_id \notin Range(drivers) =>
       \A k \in DOMAIN drivers : score(i) <= score(EventAt(drivers[k]))

\* C22: the overall driver list holds at most 5 and the driver list of
\* each dimension at most 3 event ids, all of qualifying events, in
\* non-increasing order of impact score (severity * confidence overall,
\* severity * dimension weight * confidence for a dimension); no
\* qualifying event left out has a higher score than a listed one.
C22_TopDrivers ==
  pc = "assessed" =>
    /\ RankedFrom(assessment.drivers, 5, Qualifying(scoreIn), OverallScoreOf)
    /\ \A k \in DOMAIN assessment.sub_scores :
         LET d == assessment.sub_scores[k].name
             score(i) == DimensionScoreOf(d, i)
         IN /\ RankedFrom(assessment.sub_scores[k].drivers, 3,
                          { i \in Qualifying(scoreIn) :
                              StatedWeight(scoreIn[i].event_type, d) # 0 },
                          score)
            /\ \A i \in Qualifying(scoreIn) :
                 scoreIn[i].event_id \notin Range(assessment.sub_scores[k].drivers) =>
                   \A l \in DOMAIN assessment.sub_scores[k].drivers :
                     score(i) <= score(EventAt(assessment.sub_scores[k].drivers[l]))

\* six qualifying events of three different scores, the strongest given
\* last, were ranked: five are listed overall, the strongest first, and
\* three for a dimension
C22_Witness ==
  /\ pc = "assessed"
  /\ Cardinality(Qualifying(scoreIn)) = 6
  /\ Cardinality({ OverallScoreOf(i) : i \in DOMAIN scoreIn }) = 3
  /\ \A i \in 1..5 : OverallScoreOf(i) < OverallScoreOf(6)
  /\ Len(assessment.drivers) = 5
  /\ assessment.drivers[1] = scoreIn[6].event_id
  /\ \E k \in DOMAIN assessment.sub_scores : Len(assessment.sub_scores[k].drivers) = 3

\* the order of two positions of the event list, and of their event ids
InputOrder(i, j) == i < j
IdDescending(i, j) == StrLess(scoreIn[j].event_id, scoreIn[i].event_id)

\* among events of equal score, the listed ones stand in the order
\* before, and every listed one is before every one left out
TiesBy(drivers, cand, score(_), before(_, _)) ==
  /\ \A k, l \in DOMAIN drivers :
       k < l /\ score(EventAt(drivers[k])) = score(EventAt(drivers[l]))
         => before(EventAt(drivers[k]), EventAt(drivers[l]))
  /\ \A i \in cand : \A k \in DOMAIN drivers :
       /\ scoreIn[i].event_id \notin Range(drivers)
       /\ score(i) = score(EventAt(drivers[k]))
       => before(EventAt(drivers[k]), i)

TiesEverywhereBy(before(_, _)) ==
  pc = "assessed" =>
    /\ TiesBy(assessment.drivers, Qualifying(scoreIn), OverallScoreOf, before)
    /\ \A k \in DOMAIN assessment.sub_scores :
         LET d == assessment.sub_scores[k].name
             score(i) == DimensionScoreOf(d, i)
         IN TiesBy(assessment.sub_scores[k].drivers,
                   { i \in Qualifying(scoreIn) :
                       StatedWeight(scoreIn[i].event_type, d) # 0 },
                   score, before)

\* C23 as stated: qualifying events of equal impact score are listed in
\* the order of the input event list, and that order decides which of
\* them survive the cut.
C23_Original == TiesEverywhereBy(InputOrder)

\* C23: qualifying events of equal impact score are listed in descending
\* order of their event ids, and that order decides which of them
\* survive the cut at five and at three.
C23_TiesByIdDescending == TiesEverywhereBy(IdDescending)

\* six qualifying events of one score: the second of the input, with the
\* greatest id, is listed first and the fifth, with the least id, is cut
C23_Witness ==
  /\ pc = "assessed"
  /\ Cardinality(Qualifying(scoreIn)) = 6
  /\ Cardinality({ OverallScoreOf(i) : i \in DOMAIN scoreIn }) = 1
  /\ assessment.drivers[1] = scoreIn[2].event_id
  /\ scoreIn[5].event_id \notin Range(assessment.drivers)
  /\ scoreIn[1].event_id \in Range(assessment.drivers)

\* the snapshots of the target, of the last 90 days, in the log as it
\* stood at the k-th read of run r
SeenBy(r, k) ==
  SelectSeq(SubSeq(historical, 1, Min(run[r].reads[k], Len(historical))),
            LAMBDA row : row.target = OverlapTarget /\ row.generated_at >= now - 90 * Day)

\* the snapshot of rows nearest to now minus h days, the earliest of them
NearestOf(rows, h) ==
  CHOOSE i \in DOMAIN rows :
    /\ \A j \in DOMAIN rows :
         Abs(rows[i].generated_at - (now - h * Day)) <= Abs(rows[j].generated_at - (now - h * Day))
    /\ \A j \in 1..(i - 1) :
         Abs(rows[i].generated_at - (now - h * Day)) < Abs(rows[j].generated_at - (now - h * Day))

\* the deltas of run r are those against the log as its reads found it
DeltasFromReads(r) ==
  LET n == Len(config.weights)
      a == assessment[r]
  IN /\ \A p \in 1..3 :
          DeltasOf(a)[p] =
            IF SeenBy(r, n + 1) = <<>> THEN <<0, 1>>
            ELSE RatSub(a.overall_score,
                        SeenBy(r, n + 1)[NearestOf(SeenBy(r, n + 1), DeltaDays[p])].overall_score)
     /\ \A k \in 1..n : \A p \in 1..3 :
          DeltasOf(a.sub_scores[k])[p] =
            IF SeenBy(r, k) = <<>> THEN <<0, 1>>
            ELSE Rat(a.sub_scores[k].value
                       - SeenBy(r, k)[NearestOf(SeenBy(r, k), DeltaDays[p])].sub_scores[k].value, 1)

\* run q had saved its snapshot when run r made its first read
RanBefore(q, r) ==
  /\ run[q].saved # 0
  /\ run[r].reads # <<>>
  /\ run[q].saved <= run[r].reads[1]

\* C24: no lock orders the runs: every run appends its own snapshot, and
\* its deltas are taken against the log as each of its reads found it; a
\* run whose reads all follow the save of another run finds that run's
\* snapshot in every one of its lookups.
C24_ReadsDecideDeltas ==
  \A r \in OverlapRuns :
    /\ pc[r] = "saved" =>
         /\ run[r].saved \in DOMAIN historical
         /\ historical[run[r].saved] = HistoricalRow(assessment[r])
    /\ pc[r] \in {"assessed", "saved"} => DeltasFromReads(r)
    /\ \A q \in OverlapRuns \ {r} :
         RanBefore(q, r) =>
           \A k \in DOMAIN run[r].reads :
             \E i \in DOMAIN SeenBy(r, k) :
               SeenBy(r, k)[i] = HistoricalRow(assessment[q])

\* two runs on an empty log overlapped: both read the empty log at each
\* lookup, both appended a snapshot, and the deltas of the run that saved
\* last are 0 although the snapshot of the other run has another score
C24_Witness ==
  /\ \A r \in {1, 2} : pc[r] = "saved" /\ \A k \in DOMAIN run[r].reads : run[r].reads[k] = 0
  /\ run[1].saved = 1 /\ run[2].saved = 2
  /\ Len(LogOf(OverlapTarget)) = 2
  /\ assessment[1].overall_score # assessment[2].overall_score
  /\ DeltasOf(assessment[2]) = <<(<<0, 1>>), (<<0, 1>>), (<<0, 1>>)>>

\* two runs one after the other: the second found the snapshot of the
\* first in its lookups and its deltas are taken against it
C24_Sequential ==
  /\ \A r \in {1, 2} : pc[r] = "saved"
  /\ RanBefore(1, 2)
  /\ Len(historical) = 2
  /\ DeltasOf(assessment[2])[1] = RatSub(assessment[2].overall_score, assessment[1].overall_score)
  /\ assessment[1].overall_score # assessment[2].overall_score

\* the stored events, read back
StoredEvents == { _row_to_event(events[i]) : i \in DOMAIN events }

\* the correlation score as stated, in tenths: 0.3 for the same location,
\* 0.3 for the same kind, 0.2 when less than 24 hours apart, else 0.1 when
\* less than 7 days apart, 0.2 for a shared entity, at most 1.0
StatedCorrelation(e, o) ==
  LET location == IF Lower(e.location) = Lower(o.location) THEN 3 ELSE 0
      kind == IF e.event_type = o.event_type THEN 3 ELSE 0
      apart == Abs(e.timestamp - o.timestamp)
      time == IF apart < 24 THEN 2 ELSE IF apart < 7 * 24 THEN 1 ELSE 0
      entity == IF \E x \in Range(e.entities) : x \in Range(o.entities) THEN 2 ELSE 0
      total == location + kind + time + entity
  IN IF total > 10 THEN 10 ELSE total

\* C25: find_correlated_events(e) returns exactly the stored events other
\* than e, at most N days from e, whose correlation score is above 0.5;
\* an event that shares neither location nor kind with e is never
\* returned, one in the window that shares both always is, and e never.
C25_CorrelatedExactly ==
  pc = "correlated" =>
    /\ Range(extracted) =
         { o \in StoredEvents :
             /\ o.event_id # cluster.event_id
             /\ Abs(o.timestamp - cluster.timestamp) <= cursor * 24
             /\ StatedCorrelation(cluster, o) > 5 }
    /\ \A i, j \in DOMAIN extracted : i # j => extracted[i] # extracted[j]
    /\ \A o \in StoredEvents :
         /\ (Lower(o.location) # Lower(cluster.location) /\ o.event_type # cluster.event_type)
              => o \notin Range(extracted)
         /\ ( /\ Lower(o.location) = Lower(cluster.location)
              /\ o.event_type = cluster.event_type
              /\ o.event_id # cluster.event_id
              /\ Abs(o.timestamp - cluster.timestamp) <= cursor * 24 )
              => o \in Range(extracted)
         /\ o.event_id = cluster.event_id => o \notin Range(extracted)

\* the table holds the event itself and an event of its kind and location
\* exactly 30 days later: the default window returns the second alone
C25_Witness ==
  /\ pc = "correlated" /\ cursor = 30
  /\ \E o \in StoredEvents : o.event_id = cluster.event_id
  /\ Len(events) = 2
  /\ Len(extracted) = 1
  /\ extracted[1].timestamp = cluster.timestamp + 30 * 24
  /\ StatedCorrelation(cluster, extracted[1]) = 6

\* the place of the i-th event given in the time order of its location
\* comes before that of the j-th
EarlierAt(i, j) ==
  \/ extracted[i].timestamp < extracted[j].timestamp
  \/ extracted[i].timestamp = extracted[j].timestamp /\ i < j

\* the i-th and j-th events given are next to each other, in this order,
\* in the time-ordered list of their location
AdjacentAt(i, j) ==
  /\ extracted[i].location = extracted[j].location
  /\ EarlierAt(i, j)
  /\ \A k \in DOMAIN extracted :
       extracted[k].location = extracted[i].location => ~(EarlierAt(i, k) /\ EarlierAt(k, j))

\* the pairs an escalation is stated for
StatedEscalations ==
  { <<i, j>> \in (DOMAIN extracted) \X (DOMAIN extracted) :
      /\ AdjacentAt(i, j)
      /\ extracted[i].event_type = "civil_unrest"
      /\ extracted[j].event_type = "armed_conflict"
      /\ extracted[j].timestamp - extracted[i].timestamp < 30 * 24 }

\* C26: detect_patterns reports an escalation for a pair of events exactly
\* when they have the same location, are adjacent in the time-ordered
\* list of that location, the first is civil_unrest, the second
\* armed_conflict, and the second is less than 30 days after the first;
\* with another event of the location between them nothing is reported.
C26_EscalationExactly ==
  pc = "patterns" =>
    /\ { clusters[k].events : k \in DOMAIN clusters }
         = { <<extracted[p[1]].event_id, extracted[p[2]].event_id>> : p \in StatedEscalations }
    /\ Len(clusters) = Cardinality(StatedEscalations)
    /\ \A k \in DOMAIN clusters :
         /\ clusters[k].type = "escalation"
         /\ \E p \in StatedEscalations :
              /\ clusters[k].events = <<extracted[p[1]].event_id, extracted[p[2]].event_id>>
              /\ clusters[k].location = extracted[p[1]].location
              /\ clusters[k].timeframe_days * 24
                   <= extracted[p[2]].timestamp - extracted[p[1]].timestamp
              /\ clusters[k].timeframe_days < 30
    /\ \A i, j, k \in DOMAIN extracted :
         ( /\ extracted[i].location = extracted[j].location
           /\ extracted[k].location = extracted[i].location
           /\ extracted[i].timestamp < extracted[k].timestamp
           /\ extracted[k].timestamp < extracted[j].timestamp )
         => \A c \in DOMAIN clusters :
              clusters[c].events # <<extracted[i].event_id, extracted[j].event_id>>

\* a conflict given first, an event of another country ten hours after
\* the unrest, and the unrest 30 days less an hour before the conflict:
\* one escalation of 29 days is reported
C26_Witness ==
  /\ pc = "patterns"
  /\ Len(extracted) = 3
  /\ extracted[1].event_type = "armed_conflict" /\ extracted[1].timestamp = 30 * 24 - 1
  /\ extracted[2].location # extracted[1].location /\ extracted[2].timestamp = 10
  /\ extracted[3].event_type = "civil_unrest" /\ extracted[3].timestamp = 0
  /\ Len(clusters) = 1
  /\ clusters[1].events = <<extracted[3].event_id, extracted[1].event_id>>
  /\ clusters[1].timeframe_days = 29

\* unrest, an election of the same country ten hours later and a conflict
\* within 30 days: nothing is reported
C26_Intervening ==
  /\ pc = "patterns"
  /\ Len(extracted) = 3
  /\ extracted[1].event_type = "civil_unrest" /\ extracted[1].timestamp = 0
  /\ extracted[2].event_type = "armed_conflict" /\ extracted[2].timestamp = 30 * 24 - 1
  /\ extracted[3].event_type = "election" /\ extracted[3].timestamp = 10
  /\ \A i \in 1..3 : extracted[i].location = "Country A"
  /\ clusters = <<>>

\* the snapshots of the assessed target not older than 90 days, and the
\* older ones
RecentRows ==
  SelectSeq(historical, LAMBDA row :
    row.target = assessment.target /\ now - row.generated_at <= 90 * 24)
OldRows ==
  SelectSeq(historical, LAMBDA row :
    row.target = assessment.target /\ now - row.generated_at > 90 * 24)

\* C27: the deltas are taken against snapshots of the target of the last
\* 90 days only: the baseline of every horizon, the 90-day one included,
\* is one of them, and with none of them, whatever older snapshots the
\* log holds, every delta is 0.
C27_OnlyLast90Days ==
  pc = "assessed" =>
    \A p \in DOMAIN DeltaDays :
      /\ RecentRows = <<>> =>
           /\ DeltasOf(assessment)[p] = <<0, 1>>
           /\ \A k \in DOMAIN assessment.sub_scores :
                DeltasOf(assessment.sub_scores[k])[p] = <<0, 1>>
      /\ RecentRows # <<>> =>
           /\ \E i \in DOMAIN RecentRows :
                DeltasOf(assessment)[p]
                  = RatSub(assessment.overall_score, RecentRows[i].overall_score)
           /\ \A k \in DOMAIN assessment.sub_scores :
                \E i \in DOMAIN RecentRows :
                  DeltasOf(assessment.sub_scores[k])[p]
                    = Rat(assessment.sub_scores[k].value - RecentRows[i].sub_scores[k].value, 1)

\* the only snapshot of the target is 100 days old and has another score
\* than the assessment: all deltas are 0
C27_Witness ==
  /\ pc = "assessed"
  /\ RecentRows = <<>>
  /\ Len(OldRows) = 1
  /\ OldRows[1].overall_score # assessment.overall_score
  /\ now - OldRows[1].generated_at = 100 * 24
  /\ DeltasOf(assessment) = <<(<<0, 1>>), (<<0, 1>>), (<<0, 1>>)>>
  /\ \A k \in DOMAIN assessment.sub_scores :
       DeltasOf(assessment.sub_scores[k]) = <<(<<0, 1>>), (<<0, 1>>), (<<0, 1>>)>>

\* a snapshot of 90 days and an hour ago stands beside one of 90 days
\* ago, of another score: the 90-day delta is against the later one
C27_OldNearer ==
  /\ pc = "assessed"
  /\ Len(OldRows) = 1 /\ Len(RecentRows) = 1
  /\ OldRows[1].overall_score # RecentRows[1].overall_score
  /\ assessment.delta_90d = RatSub(assessment.overall_score, RecentRows[1].overall_score)

\* two items are similar within the configured window
SimilarInWindow(x, y) == _are_similar(x, y, config.time_window_hours)

\* C28: every member of a cluster but its anchor is similar, within the
\* window, to the anchor of its cluster and to the anchor of no earlier
\* cluster; no two anchors are similar within the window; an item is in
\* one cluster only, whatever it is similar to besides anchors.
C28_AnchorsOnly ==
  pc = "clustered" =>
    /\ \A k \in DOMAIN clusters : \A i \in 2..Len(clusters[k]) :
         /\ SimilarInWindow(clusters[k][1], clusters[k][i])
         /\ \A l \in 1..(k - 1) : ~SimilarInWindow(clusters[l][1], clusters[k][i])
    /\ \A k, l \in DOMAIN clusters :
         k # l => ~SimilarInWindow(clusters[k][1], clusters[l][1])
    /\ \A k, l \in DOMAIN clusters : \A i \in DOMAIN clusters[k] : \A j \in DOMAIN clusters[l] :
         clusters[k][i] = clusters[l][j] => (k = l /\ i = j)

\* a cluster of three: its two later members were admitted by the anchor
\* and are not similar to each other
C28_Witness ==
  /\ pc = "clustered"
  /\ \E k \in DOMAIN clusters :
       /\ Len(clusters[k]) = 3
       /\ ~SimilarInWindow(clusters[k][2], clusters[k][3])

\* a member of a cluster is similar to the anchor of a later cluster and
\* the two clusters were not merged
C28_NotMerged ==
  /\ pc = "clustered"
  /\ \E k, l \in DOMAIN clusters :
       /\ k < l /\ Len(clusters[k]) = 2
       /\ SimilarInWindow(clusters[k][2], clusters[l][1])

\* the snapshots of a target the current run appended, and those of the
\* runs before it
OfThisRun(target) ==
  SelectSeq(historical, LAMBDA row : row.target = target /\ row.generated_at = now)
OfEarlierRuns(target) ==
  SelectSeq(historical, LAMBDA row : row.target = target /\ row.generated_at < now)

\* C29: in a run every monitored country is assessed before its snapshot
\* is appended, and one snapshot for each is appended, with or without
\* events of the country; the deltas of the first run on an empty store
\* are 0, and those of a later run are taken against snapshots of earlier
\* runs, never against one of the same run.
C29_AssessThenAppend ==
  LET countries == config.monitored_countries
      n == Len(countries)
  IN /\ pc \in {"scoring", "assessed"} =>
          /\ Len(historical) = (run - 1) * n + (cursor - 1)
          /\ \A i \in DOMAIN countries :
               Len(OfThisRun(countries[i])) = IF i < cursor THEN 1 ELSE 0
     /\ pc = "done" =>
          /\ Len(historical) = run * n
          /\ \A i \in DOMAIN countries : Len(OfThisRun(countries[i])) = 1
     /\ pc = "assessed" =>
          /\ assessment.target = countries[cursor]
          /\ assessment.generated_at = now
          /\ OfThisRun(assessment.target) = <<>>
          /\ \A p \in DOMAIN DeltaDays :
               IF OfEarlierRuns(assessment.target) = <<>>
               THEN /\ DeltasOf(assessment)[p] = <<0, 1>>
                    /\ \A k \in DOMAIN assessment.sub_scores :
                         DeltasOf(assessment.sub_scores[k])[p] = <<0, 1>>
               ELSE \E i \in DOMAIN OfEarlierRuns(assessment.target) :
                      /\ DeltasOf(assessment)[p]
                           = RatSub(assessment.overall_score,
                                    OfEarlierRuns(assessment.target)[i].overall_score)
                      /\ \A k \in DOMAIN assessment.sub_scores :
                           DeltasOf(assessment.sub_scores[k])[p]
                             = Rat(assessment.sub_scores[k].value
                                     - OfEarlierRuns(assessment.target)[i].sub_scores[k].value, 1)
          /\ run = 1 => DeltasOf(assessment) = <<(<<0, 1>>), (<<0, 1>>), (<<0, 1>>)>>

\* the second run is over: the log holds four snapshots, two of each
\* country; the second country had no event in either run, and the deltas
\* of the first are its score less the score of the first run
C29_Witness ==
  /\ pc = "done" /\ run = 2
  /\ Len(historical) = 4
  /\ \A i \in DOMAIN config.monitored_countries :
       Len(LogOf(config.monitored_countries[i])) = 2
  /\ historical[1].overall_score # historical[3].overall_score
  /\ historical[2].overall_score = Rat(Baseline, 1)
  /\ assessments[Len(assessments) - 1].delta_7d
       = RatSub(historical[3].overall_score, historical[1].overall_score)
  /\ CountryEvents("Nigeria", scoreIn) = <<>>

\* two clusters have the same anchor: the same item with the same time
SameAnchor(c1, c2) ==
  /\ c1[1].source_id = c2[1].source_id
  /\ c1[1].title = c2[1].title
  /\ c1[1].content = c2[1].content
  /\ EffectiveTime(c1[1]) = EffectiveTime(c2[1])

\* the rows of the events table under an id
RowsUnder(id) == SelectSeq(events, LAMBDA row : row.event_id = id)

\* C30: clusters with the same anchor give events of the same id, whatever
\* other members they have; once the event of a cluster is saved, the
\* table holds one row under its id, with the confidence and the
\* citations of the cluster saved last.
C30_LatestRunWins ==
  /\ \A a, b \in extractLog :
       SameAnchor(a.cluster, b.cluster) => EventIds(a.events) = EventIds(b.events)
  /\ (pc = "clustered" /\ cursor > 1 /\ extracted # <<>>) =>
       LET rows == RowsUnder(extracted[1].event_id)
           cited == Min(Len(cluster), config.max_sources_per_cluster)
       IN /\ Len(rows) = 1
          /\ rows[1].confidence = StatedConfidence(cluster)
          /\ Len(rows[1].sources) = cited
          /\ \A i \in 1..cited :
               /\ rows[1].sources[i].url = cluster[i].url
               /\ rows[1].sources[i].source_name = cluster[i].source_name
               /\ rows[1].sources[i].tier = cluster[i].tier
          /\ rows[1].evidence_links = [i \in DOMAIN cluster |-> cluster[i].url]

\* a run saved the event of an anchor alone; a later run clustered the
\* anchor with a second source and saved its event: the table holds one
\* row, with the higher confidence and both citations
C30_Witness ==
  /\ pc = "clustered" /\ cursor > 1 /\ extracted # <<>>
  /\ run = 2
  /\ Len(cluster) = 2
  /\ \E a \in extractLog :
       /\ Len(a.cluster) = 1
       /\ SameAnchor(a.cluster, cluster)
       /\ a.at < now
       /\ a.events # <<>>
       /\ a.events[1].event_id = extracted[1].event_id
       /\ a.events[1].confidence < extracted[1].confidence
  /\ Len(events) = 1
  /\ events[1].confidence = extracted[1].confidence
  /\ Len(events[1].sources) = 2

=============================================================================
